---- MODULE Spec2Model ----
(***************************************************************************)
(* Batch generation pipeline and publish scheduler of vixenbliss_creator.  *)
(*                                                                         *)
(* The specifications of this module, one per subsystem:                   *)
(*   SpecGen    LoRAInferenceEngine.batch_generate_images (Generate stage) *)
(*   SpecSelect TemplateLibrary.get_tier_distribution and the niche merge  *)
(*              of BatchProcessor._select_templates (Select stage)         *)
(*   SpecSched  SmartSchedulerService.schedule_batch_posts                 *)
(*   SpecPub    publish_social_post run by concurrent dispatch workers     *)
(*   SpecRetry  publish_social_post, reschedule_failed_post and            *)
(*              cancel_scheduled_post applied to a post in any order       *)
(*   SpecSweep  the periodic dispatch sweep, one instance at a time        *)
(* Times are minutes since 00:00 UTC of day 0.                             *)
(***************************************************************************)
EXTENDS Integers, Sequences, FiniteSets, TLC

VARIABLES
    \* ---- Generate stage (lora_inference.py) ----
    prompts,          \* number of prompts handed to batch_generate_images
    taskState,        \* per prompt index: "waiting" | "running" | "ok" | "err"
    semaphore,        \* value of asyncio.Semaphore(5)
    content_pieces,   \* prompt indices of the ContentPieces returned, in order
    genPc,            \* "gather" | "done"
    overtook,         \* history: a wrapper finished before one of an earlier prompt
    \* ---- Select stage (template_library.py, batch_processor.py) ----
    selPc,            \* "idle" | "selected"
    selInput,         \* the arguments of the last _select_templates call
    final_templates,  \* the template list it returned (catalog indices)
    \* ---- scheduler and dispatcher (smart_scheduler.py, tasks.py) ----
    now,              \* datetime.utcnow(), in minutes
    accounts,         \* social_accounts table
    posts,            \* scheduled_posts table (committed rows)
    sched,            \* the running schedule_batch_posts call, if any
    workers,          \* per dispatch worker: its invocation of publish_social_post
    platformPosts,    \* per post: successful Publisher.publish results so far
    sweepLog,         \* bookkeeping of consecutive sweeps without a time advance
    \* ---- batch pipeline (batch_processor.py) ----
    batch,            \* the running process_batch call: stage and working set
    contentTable,     \* content_pieces table (committed rows)
    generatorCalls,   \* generate_image_with_lora calls made so far
    \* ---- image providers (modal_sdxl_lora_client.py, api/content.py) ----
    modal,            \* the running ModalSDXLLoRAClient.generate_image_with_lora call
    single,           \* the running generate_single_content request
    \* ---- requests in flight (health_monitoring.py, api/content.py) ----
    health,           \* per checker: its running check_account_health call
    uploadReq         \* the running upload_content_batch request

genVars == <<prompts, taskState, semaphore, content_pieces, genPc, overtook>>
selVars == <<selPc, selInput, final_templates>>
dbVars == <<now, accounts, posts>>
pubVars == <<workers, platformPosts, sweepLog>>
batchVars == <<batch, contentTable, generatorCalls>>
infVars == <<modal, single>>
reqVars == <<health, uploadReq>>
vars == <<genVars, selVars, dbVars, sched, pubVars, batchVars, infVars, reqVars>>

\* What a step of one subsystem leaves alone: the other subsystems.
GenFrame == UNCHANGED <<selVars, dbVars, sched, pubVars, batchVars, infVars, reqVars>>
SelFrame == UNCHANGED <<genVars, dbVars, sched, pubVars, batchVars, infVars, reqVars>>
SchedFrame == UNCHANGED <<genVars, selVars, pubVars, batchVars, infVars, reqVars>>
PubFrame == UNCHANGED <<genVars, selVars, sched, batchVars, infVars, reqVars>>
BatchFrame == UNCHANGED <<genVars, selVars, pubVars, infVars, reqVars>>
InfFrame == UNCHANGED <<genVars, selVars, pubVars, reqVars>>
\* A step of a health check leaves alone all but social_accounts and the
\* check; a step of an upload request all but content_pieces and the request.
HealthFrame ==
    UNCHANGED <<genVars, selVars, now, posts, sched, pubVars, batchVars, infVars, uploadReq>>
UploadFrame ==
    UNCHANGED <<genVars, selVars, dbVars, sched, pubVars, batch, generatorCalls,
                infVars, health>>

----------------------------------------------------------------------------
(* Bounds of the model *)

\* largest number of prompts of one batch_generate_images call
MaxPrompts == 7

----------------------------------------------------------------------------
(* Generate stage: LoRAInferenceEngine.batch_generate_images               *)

\* asyncio.Semaphore(5): at most 5 concurrent generations
SemaphoreLimit == 5

PromptIdx == 1..MaxPrompts

\* The wrapper coroutines asyncio.gather has started: one per prompt.
Tasks == 1..prompts

\* Generator calls in flight: wrappers inside `async with semaphore`, awaiting
\* generate_image_with_lora.
InFlight == {i \in Tasks : taskState[i] = "running"}

\* A variant of CanAcquire that lets a wrapper through whatever the
\* semaphore's value is.
CanAcquireUnbounded(i) ==
    taskState[i] = "waiting"

\* `async with semaphore`: the wrapper enters only while the value is positive.
CanAcquire(i) ==
    taskState[i] = "waiting" /\ semaphore > 0

GenIdle ==
    /\ prompts = 0
    /\ taskState = [i \in PromptIdx |-> "waiting"]
    /\ semaphore = SemaphoreLimit
    /\ content_pieces = <<>>
    /\ genPc = "done"
    /\ overtook = FALSE

\* batch_generate_images up to the gather: the coroutine objects are created
\* (none runs yet) and gather schedules one wrapper per prompt.
InitGen ==
    /\ prompts \in 0..MaxPrompts
    /\ taskState = [i \in PromptIdx |-> "waiting"]
    /\ semaphore = SemaphoreLimit
    /\ content_pieces = <<>>
    /\ genPc = "gather"
    /\ overtook = FALSE

\* generate_with_limit(task) passes `async with semaphore` and awaits the
\* Generator coroutine, which starts running now: this is where the call
\* to generate_image_with_lora is made.
Acquire(i) ==
    /\ genPc = "gather"
    /\ i \in Tasks
    /\ CanAcquire(i)
    /\ taskState' = [taskState EXCEPT ![i] = "running"]
    /\ semaphore' = semaphore - 1
    /\ generatorCalls' = generatorCalls + 1
    /\ UNCHANGED <<prompts, content_pieces, genPc, overtook>>
    /\ UNCHANGED <<batch, contentTable>>
    /\ UNCHANGED <<selVars, dbVars, sched, pubVars, infVars, reqVars>>

\* The Generator call of wrapper i returns or raises; leaving the
\* `async with` block releases the semaphore either way.
Finish(i, outcome) ==
    /\ genPc = "gather"
    /\ i \in Tasks
    /\ taskState[i] = "running"
    /\ taskState' = [taskState EXCEPT ![i] = outcome]
    /\ semaphore' = semaphore + 1
    /\ overtook' = (overtook \/ \E j \in Tasks :
                                    j < i /\ taskState[j] \in {"waiting", "running"})
    /\ UNCHANGED <<prompts, content_pieces, genPc>>
    /\ GenFrame

RECURSIVE SuccessfulIndicesNewestFirst(_, _)
RECURSIVE SuccessfulIndices(_, _)
\* Variant of SuccessfulIndices that puts each new ContentPiece in front of
\* the list.
SuccessfulIndicesNewestFirst(i, n) ==
    IF i > n THEN <<>>
    ELSE SuccessfulIndicesNewestFirst(i + 1, n)
            \o (IF taskState[i] = "ok" THEN <<i>> ELSE <<>>)

\* The loop over enumerate(results): exceptions are skipped, every other
\* result yields a ContentPiece carrying its prompt_index.
SuccessfulIndices(i, n) ==
    IF i > n THEN <<>>
    ELSE (IF taskState[i] = "ok" THEN <<i>> ELSE <<>>) \o SuccessfulIndices(i + 1, n)

\* Variant of Collect for a gather without return_exceptions: it returns at
\* the first exception, while other wrappers are still waiting or running.
CollectAtFirstException ==
    /\ genPc = "gather"
    /\ \/ \E i \in Tasks : taskState[i] = "err"
       \/ \A i \in Tasks : taskState[i] = "ok"
    /\ content_pieces' = SuccessfulIndices(1, prompts)
    /\ genPc' = "done"
    /\ UNCHANGED <<prompts, taskState, semaphore, overtook>>
    /\ GenFrame

\* gather(..., return_exceptions=True) returns once every wrapper is done;
\* the results are then turned into ContentPieces.
Collect ==
    /\ genPc = "gather"
    /\ \A i \in Tasks : taskState[i] \in {"ok", "err"}
    /\ content_pieces' = SuccessfulIndices(1, prompts)
    /\ genPc' = "done"
    /\ UNCHANGED <<prompts, taskState, semaphore, overtook>>
    /\ GenFrame

----------------------------------------------------------------------------
(* Select stage: TemplateLibrary and BatchProcessor._select_templates      *)

\* largest num_pieces of a batch
MaxCount == 50
\* largest number in the streams of random draws the model feeds to
\* random.sample and random.choice
MaxDraw == 1
\* largest number of custom prompts of a batch
MaxCustom == 2

\* len(CONTENT_TEMPLATES)
CatalogSize == 50

\* CONTENT_TEMPLATES[i]["tier"], in catalog order (FIT-001 .. NAT-006).
TemplateTier ==
    << 1,1,1,2,1,1,2,1,1,2,  1,1,1,1,1,1,1,1,1,1,  2,2,2,2,2,3,2,2,2,2,
       2,1,2,2,2,2,1,2,  1,1,1,1,1,1,  1,1,1,1,1,1 >>

\* CONTENT_TEMPLATES[i]["category"].
TemplateCategory ==
    [i \in 1..CatalogSize |->
        IF i <= 10 THEN "fitness"
        ELSE IF i <= 20 THEN "lifestyle"
        ELSE IF i <= 30 THEN "glamour"
        ELSE IF i <= 38 THEN "beach"
        ELSE IF i <= 44 THEN "urban"
        ELSE "nature"]

\* Index 0 stands for the template _select_templates builds for a custom
\* prompt: {"id": "custom", "category": "custom", "tier": "capa1"}.
CustomTemplate == 0

TierOf(t) == IF t = CustomTemplate THEN 1 ELSE TemplateTier[t]

AllTemplates == [i \in 1..CatalogSize |-> i]

InSeq(x, s) == \E j \in 1..Len(s) : s[j] = x

get_by_tier(tier) == SelectSeq(AllTemplates, LAMBDA t : TemplateTier[t] = tier)

get_by_category(category) ==
    SelectSeq(AllTemplates, LAMBDA t : TemplateCategory[t] = category)

Min(a, b) == IF a < b THEN a ELSE b

\* The random source: a stream of natural numbers, given by a non-empty
\* list that repeats after its last element; Draw is its j-th number.
Draw(draws, j) == draws[((j - 1) % Len(draws)) + 1]

\* The list without its i-th element.
Without(population, i) ==
    SubSeq(population, 1, i - 1) \o SubSeq(population, i + 1, Len(population))

RECURSIVE random_sample(_, _, _, _)
\* random.sample(population, k): k distinct elements of the population in
\* any order.  Each element is picked among those left by the next number
\* of the stream, `used` numbers of which are spent already; every
\* k-permutation of the population is the result for some stream.
random_sample(population, k, draws, used) ==
    IF k = 0 THEN <<>>
    ELSE LET i == (Draw(draws, used + 1) % Len(population)) + 1
         IN  <<population[i]>>
             \o random_sample(Without(population, i), k - 1, draws, used + 1)

\* random.choice(population): any element, picked by the next number of
\* the stream.
random_choice(population, draws, used) ==
    population[(Draw(draws, used + 1) % Len(population)) + 1]

\* int(count * ratio) for a ratio given in tenths (0.6 is 6): the float
\* product truncates to the exact quotient for every count the model draws.
TierCount(count, tenths) == (count * tenths) \div 10

RECURSIVE FillWithCapa1(_, _, _, _, _)
\* "Fill remaining with capa1": while len(selected) < count, append a random
\* capa1 template not yet selected; stop when none is left.
FillWithCapa1(selected, count, capa1_templates, draws, used) ==
    IF Len(selected) >= count THEN selected
    ELSE LET remaining == SelectSeq(capa1_templates, LAMBDA t : ~InSeq(t, selected))
         IN  IF remaining = <<>> THEN selected
             ELSE FillWithCapa1(
                      Append(selected, random_choice(remaining, draws, used)),
                      count, capa1_templates, draws, used + 1)

\* TemplateLibrary.get_tier_distribution(count, capa1_ratio, capa2_ratio,
\* capa3_ratio); ratios is the triple of ratios in tenths.
get_tier_distribution(count, ratios, draws) ==
    LET capa1_templates == get_by_tier(1)
        capa2_templates == get_by_tier(2)
        capa3_templates == get_by_tier(3)
        k1 == Min(TierCount(count, ratios[1]), Len(capa1_templates))
        k2 == Min(TierCount(count, ratios[2]), Len(capa2_templates))
        k3 == Min(TierCount(count, ratios[3]), Len(capa3_templates))
        selected ==
            random_sample(capa1_templates, k1, draws, 0)
            \o random_sample(capa2_templates, k2, draws, k1)
            \o random_sample(capa3_templates, k3, draws, k1 + k2)
        filled == FillWithCapa1(selected, count, capa1_templates, draws,
                                k1 + k2 + k3)
    IN  SubSeq(filled, 1, Min(count, Len(filled)))

Niches ==
    {"fitness", "wellness", "glamour", "lifestyle", "beach", "fashion",
     "artistic", "other"}

\* niche_mapping of get_templates_for_avatar, with its default for a niche
\* it does not list.
PreferredCategories(niche) ==
    CASE niche = "fitness"   -> <<"fitness", "wellness", "lifestyle">>
      [] niche = "wellness"  -> <<"wellness", "lifestyle", "nature">>
      [] niche = "glamour"   -> <<"glamour", "fashion", "intimate">>
      [] niche = "lifestyle" -> <<"lifestyle", "urban", "nature">>
      [] niche = "beach"     -> <<"beach", "nature", "lifestyle">>
      [] niche = "fashion"   -> <<"fashion", "glamour", "urban">>
      [] niche = "artistic"  -> <<"artistic", "glamour", "nature">>
      [] OTHER               -> <<"lifestyle", "fashion", "glamour">>

\* TemplateLibrary.get_templates_for_avatar(avatar_niche, count)
get_templates_for_avatar(niche, count) ==
    LET cats == PreferredCategories(niche)
        preferred == get_by_category(cats[1]) \o get_by_category(cats[2])
                     \o get_by_category(cats[3])
        templates ==
            IF Len(preferred) < count
            THEN preferred \o SelectSeq(AllTemplates, LAMBDA t : ~InSeq(t, preferred))
            ELSE preferred
    IN  SubSeq(templates, 1, Min(count, Len(templates)))

RECURSIVE MergeNiche(_, _, _, _)
\* The merge loop of _select_templates: each tier-distributed template is
\* replaced by the first niche template of its tier that is not yet in
\* final_templates, and kept when there is none.
MergeNiche(templates, niche_templates, i, final) ==
    IF i > Len(templates) THEN final
    ELSE LET template == templates[i]
             matches == SelectSeq(niche_templates,
                            LAMBDA t : TemplateTier[t] = TemplateTier[template]
                                       /\ ~InSeq(t, final))
             niche_match == IF matches = <<>> THEN template ELSE matches[1]
         IN  MergeNiche(templates, niche_templates, i + 1, Append(final, niche_match))

\* BatchProcessor._select_templates(avatar, config, custom_prompts)
select_templates(niche, num_pieces, ratios, custom, draws) ==
    IF custom > 0
    THEN [j \in 1..custom |-> CustomTemplate]
    ELSE LET templates == get_tier_distribution(num_pieces, ratios, draws)
             niche_templates == get_templates_for_avatar(niche, num_pieces)
             merged == MergeNiche(templates, niche_templates, 1, <<>>)
         IN  SubSeq(merged, 1, Min(num_pieces, Len(merged)))

\* config.tier_distribution in tenths, each summing to 1.0; the default is
\* 0.6 / 0.3 / 0.1.
RatioChoices ==
    {<<6, 3, 1>>, <<10, 0, 0>>, <<5, 3, 2>>, <<3, 3, 4>>, <<0, 10, 0>>, <<0, 0, 10>>}

NoSelInput == [niche |-> "other", num_pieces |-> 0, ratios |-> <<6, 3, 1>>,
               custom |-> 0, draws |-> <<0>>]

\* The streams of random draws the model follows.
DrawStreams == [1..2 -> 0..MaxDraw]

SelIdle ==
    /\ selPc = "idle"
    /\ selInput = NoSelInput
    /\ final_templates = <<>>

\* Step 1 of process_batch: templates = self._select_templates(...)
SelectTemplates(niche, num_pieces, ratios, custom, draws) ==
    /\ selPc = "idle"
    /\ selPc' = "selected"
    /\ selInput' = [niche |-> niche, num_pieces |-> num_pieces, ratios |-> ratios,
                    custom |-> custom, draws |-> draws]
    /\ final_templates' = select_templates(niche, num_pieces, ratios, custom, draws)
    /\ SelFrame

\* The process_batch call is over; the next batch starts from scratch.
SelectReturn ==
    /\ selPc = "selected"
    /\ selPc' = "idle"
    /\ selInput' = NoSelInput
    /\ final_templates' = <<>>
    /\ SelFrame

TierCountOf(templates, tier) ==
    Cardinality({j \in 1..Len(templates) : TierOf(templates[j]) = tier})

----------------------------------------------------------------------------
(* Tables shared by the scheduler and the dispatcher                       *)

\* largest number of rows of scheduled_posts
MaxPosts == 5
\* largest number of content ids of one schedule_batch_posts call
MaxBatch == 5
\* largest number of posts scheduled with pattern randomization
MaxJitterPosts == 1
\* the clock stops advancing after this many ticks
MaxTicks == 3

MinutesPerHour == 60
MinutesPerDay == 24 * MinutesPerHour

\* The first instant of the model: 00:00 UTC of day 1, which is
\* 2026-11-01; times are minutes, day 0 being 2026-10-31.
Epoch == MinutesPerDay

DayStart(t) == (t \div MinutesPerDay) * MinutesPerDay
HourOf(t) == (t % MinutesPerDay) \div MinutesPerHour
DayOf(t) == t \div MinutesPerDay

Platforms == {"instagram", "tiktok", "twitter", "onlyfans"}

\* self.optimal_hours
optimal_hours(platform) ==
    CASE platform = "instagram" -> <<13, 14, 15, 17, 18, 19>>
      [] platform = "tiktok"    -> <<14, 15, 16, 18, 19, 20, 21>>
      [] platform = "twitter"   -> <<12, 13, 17, 18>>
      [] platform = "onlyfans"  -> <<20, 21, 22, 23>>
      [] OTHER                  -> <<12, 18>>

\* self.min_interval, in hours
min_interval(platform) ==
    CASE platform = "instagram" -> 4
      [] platform = "tiktok"    -> 3
      [] platform = "twitter"   -> 1
      [] platform = "onlyfans"  -> 6
      [] OTHER                  -> 4

\* self.max_posts_per_day
max_posts_per_day(platform) ==
    CASE platform = "instagram" -> 3
      [] platform = "tiktok"    -> 5
      [] platform = "twitter"   -> 10
      [] platform = "onlyfans"  -> 2
      [] OTHER                  -> 3

AccountIds == {1, 2}

\* SocialAccount.is_healthy()
is_healthy(account) ==
    account.status = "active" /\ account.health_score >= 70

PostIds == 1..Len(posts)

\* A scheduled_posts row as ScheduledPost(...) creates it: retry_count "0",
\* no error_message.  The pattern_randomization flag is passed as keyword
\* `metadata`, which is not the meta_data column: the row does not keep it.
NewPost(account, content, time) ==
    [social_account_id |-> account, content_piece_id |-> content,
     scheduled_time |-> time, status |-> "pending", retry_count |-> 0,
     error_message |-> "none"]

\* The clock advances by d minutes (datetime.utcnow() of later calls), at
\* most `ticks` times.
AdvanceClock(d, ticks) ==
    /\ now + d <= Epoch + ticks * d
    /\ now' = now + d
    /\ UNCHANGED <<accounts, posts, genVars, selVars, batchVars, infVars, reqVars>>

----------------------------------------------------------------------------
(* SmartSchedulerService.schedule_batch_posts                              *)

Callers == {1, 2}

\* The caller of the runs in which one request is served at a time.
SerialCallers == {1}

\* The accounts schedule_batch_posts is called for.
ScheduledAccounts == {1}

\* random.randint(0, 59) draws
MinuteChoices == {0, 59}
\* random.randint(-30, 30) draws
JitterOffsets == {-30, 30}
\* posting_schedule["timezone"] of an account: the default, a zone without
\* daylight saving time, and a zone with it.
TzChoices == {"UTC", "America/Bogota", "America/New_York"}

\* Daylight saving time ends in America/New_York on 2026-11-01 at 06:00
\* UTC (02:00 EDT becomes 01:00 EST).
DstEnd == Epoch + 6 * MinutesPerHour

\* The UTC offset, in hours, pytz gives the zone at UTC instant t
\* (utc.localize(t).astimezone(user_tz)).
utcoffset(zone, t) ==
    CASE zone = "America/Bogota"   -> -5
      [] zone = "America/New_York" -> IF t < DstEnd THEN -4 ELSE -5
      [] OTHER                     -> 0

\* get_optimal_posting_time(platform, user_timezone, target_date), with the
\* minute random.randint(0, 59) drew.  user_time carries the offset the
\* zone has at target_date; `+ timedelta(days=1)` and `.replace(hour=...)`
\* keep that tzinfo (nothing calls normalize), so the conversion back to
\* UTC subtracts the same offset, whatever offset the zone has at the
\* instant returned.
get_optimal_posting_time(platform, user_timezone, target_date, minute) ==
    LET hours == optimal_hours(platform)
        offset == utcoffset(user_timezone, target_date)
        user_time == target_date + offset * MinutesPerHour
        current_hour == HourOf(user_time)
        next_optimal_hours == SelectSeq(hours, LAMBDA h : h > current_hour)
        next_optimal_hour ==
            IF next_optimal_hours = <<>> THEN hours[1] ELSE next_optimal_hours[1]
        day == IF next_optimal_hours = <<>>
               THEN DayStart(user_time) + MinutesPerDay
               ELSE DayStart(user_time)
        optimal_time == day + next_optimal_hour * MinutesPerHour + minute
    IN  optimal_time - offset * MinutesPerHour

\* _apply_pattern_randomization: minute_offset and the 10% day skip
apply_pattern_randomization(scheduled_time, minute_offset, skip_day) ==
    scheduled_time + minute_offset + (IF skip_day THEN MinutesPerDay ELSE 0)

\* The rows a query of the running call sees.  SessionLocal is made with
\* autoflush=False, so the posts db.add()ed by this call, not yet flushed,
\* are not among them.
VisiblePosts(c) == posts

\* existing_posts_today: pending posts of the account with scheduled_time in
\* [today_start, today_end), today being the UTC day of utcnow().
existing_posts_today(c, account) ==
    LET rows == VisiblePosts(c)
        today_start == DayStart(now)
        today_end == today_start + MinutesPerDay
    IN  Cardinality({j \in 1..Len(rows) :
            /\ rows[j].social_account_id = account
            /\ rows[j].scheduled_time >= today_start
            /\ rows[j].scheduled_time < today_end
            /\ rows[j].status = "pending"})

\* The account's pending or published rows, for the last_post query.
LastPostCandidates(c, account) ==
    LET rows == VisiblePosts(c)
    IN  {j \in 1..Len(rows) :
            /\ rows[j].social_account_id = account
            /\ rows[j].status \in {"pending", "published"}}

\* last_post.scheduled_time of order_by(scheduled_time.desc()).first()
LastPostTime(c, account) ==
    LET rows == VisiblePosts(c)
        cand == LastPostCandidates(c, account)
    IN  CHOOSE t \in {rows[j].scheduled_time : j \in cand} :
            \A j \in cand : rows[j].scheduled_time <= t

\* ids is the content_piece_ids argument of the running call.  randomized
\* is history: the rows this caller's calls created with pattern
\* randomization.
SchedIdleRec ==
    [pc |-> "idle", account |-> 1, ids |-> <<>>, todo |-> 0, jitter |-> FALSE,
     current_time |-> 0, posts_scheduled_today |-> 0, new |-> <<>>,
     randomized |-> {}]

SchedIdle == sched = [c \in Callers |-> SchedIdleRec]

\* The rows created with pattern randomization so far.
RandomizedPosts == UNION {sched[c].randomized : c \in Callers}

JitterPostCount == Cardinality(RandomizedPosts)

\* The ids of n content pieces no post refers to yet.
FreshIds(n) == [k \in 1..n |-> Len(posts) + k]

\* schedule_batch_posts up to its loop: start_date (<<>> for None, <<t>> for
\* a datetime) defaults to utcnow(), the day counter is seeded from the
\* pending posts of today.
BeginSchedule(c, account, content_piece_ids, start_date, jitter) ==
    LET n == Len(content_piece_ids)
    IN  /\ sched[c].pc = "idle"
        /\ Len(posts) + n <= MaxPosts
        /\ jitter => JitterPostCount + n <= MaxJitterPosts
        /\ sched' = [sched EXCEPT ![c] =
                [pc |-> "loop", account |-> account, ids |-> content_piece_ids,
                 todo |-> n, jitter |-> jitter,
                 current_time |-> IF start_date = <<>> THEN now ELSE start_date[1],
                 posts_scheduled_today |-> existing_posts_today(c, account),
                 new |-> <<>>, randomized |-> sched[c].randomized]]
    /\ UNCHANGED <<now, accounts, posts>>
    /\ SchedFrame

\* One iteration of `for idx, content_id in enumerate(content_piece_ids)`.
ScheduleItem(c, minute, minute_offset, skip_day) ==
    LET s == sched[c]
        acct == accounts[s.account]
        max_daily == max_posts_per_day(acct.platform)
        hit_limit == s.posts_scheduled_today >= max_daily
        current_time == IF hit_limit
                        THEN DayStart(s.current_time) + MinutesPerDay
                        ELSE s.current_time
        counted == IF hit_limit THEN 0 ELSE s.posts_scheduled_today
        optimal == get_optimal_posting_time(acct.platform, acct.tz, current_time, minute)
        randomized == IF s.jitter
                      THEN apply_pattern_randomization(optimal, minute_offset, skip_day)
                      ELSE optimal
        min_time == LastPostTime(c, s.account)
                    + min_interval(acct.platform) * MinutesPerHour
        optimal_time ==
            IF LastPostCandidates(c, s.account) /= {} /\ randomized < min_time
            THEN min_time ELSE randomized
    IN  /\ s.pc = "loop"
        /\ s.todo > 0
        /\ sched' = [sched EXCEPT ![c] =
                [s EXCEPT !.todo = s.todo - 1,
                          !.current_time = optimal_time,
                          !.posts_scheduled_today = counted + 1,
                          !.new = Append(s.new,
                                    NewPost(s.account, s.ids[Len(s.new) + 1],
                                            optimal_time))]]
        /\ UNCHANGED <<now, accounts, posts>>
        /\ SchedFrame

\* db.commit() after the loop: the new rows become visible.
CommitSchedule(c) ==
    /\ sched[c].pc = "loop"
    /\ sched[c].todo = 0
    /\ posts' = posts \o sched[c].new
    /\ sched' = [sched EXCEPT ![c] =
            [SchedIdleRec EXCEPT !.randomized =
                sched[c].randomized \cup
                    (IF sched[c].jitter
                     THEN Len(posts) + 1 .. Len(posts) + Len(sched[c].new)
                     ELSE {})]]
    /\ UNCHANGED <<now, accounts>>
    /\ SchedFrame

----------------------------------------------------------------------------
(* RetryCoordinator: ScheduledPost.can_retry, reschedule_failed_post       *)

\* retry_count >= 3: max retries exceeded
MaxRetries == 3
\* retry_delay_hours: int = 2
RetryDelayHours == 2

RECURSIVE Pow2(_)
Pow2(k) == IF k = 0 THEN 1 ELSE 2 * Pow2(k - 1)

\* A backoff that grows linearly with the retry count instead of doubling.
RetryDelayLinear(retry_delay_hours, retry_count) ==
    retry_delay_hours * (retry_count + 1)

\* retry_delay = retry_delay_hours * 2 ** retry_count, in hours
RetryDelay(retry_delay_hours, retry_count) ==
    retry_delay_hours * Pow2(retry_count)

\* ScheduledPost.can_retry() on an object with these attribute values
can_retry(status, retry_count) ==
    status = "failed" /\ retry_count < MaxRetries

\* Variant of Rescheduled without the max-retries branch.
RescheduledWithoutLimit(row, retry_count) ==
    [row EXCEPT !.scheduled_time =
                    now + RetryDelay(RetryDelayHours, Min(retry_count, MaxRetries))
                          * MinutesPerHour,
                !.retry_count = retry_count + 1,
                !.status = "pending"]

\* What reschedule_failed_post does to a ScheduledPost object whose
\* retry_count attribute is retry_count; row is the row it is written to.
Rescheduled(row, retry_count) ==
    IF retry_count >= MaxRetries
    THEN [row EXCEPT !.status = "failed"]
    ELSE [row EXCEPT !.scheduled_time =
                        now + RetryDelay(RetryDelayHours, retry_count) * MinutesPerHour,
                     !.retry_count = retry_count + 1,
                     !.status = "pending"]

\* smart_scheduler.reschedule_failed_post(db, scheduled_post) called on
\* row p of the table.
RescheduleFailedPost(p) ==
    /\ p \in PostIds
    /\ posts' = [posts EXCEPT ![p] = Rescheduled(posts[p], posts[p].retry_count)]
    /\ UNCHANGED <<now, accounts, workers, platformPosts, sweepLog>>
    /\ PubFrame

\* DELETE /scheduled-posts/{post_id}: only a pending post is cancelled.
CancelScheduledPost(p) ==
    /\ p \in PostIds
    /\ posts[p].status = "pending"
    /\ posts' = [posts EXCEPT ![p].status = "cancelled"]
    /\ UNCHANGED <<now, accounts, workers, platformPosts, sweepLog>>
    /\ PubFrame

----------------------------------------------------------------------------
(* Writers of social_accounts: health checks and the accounts API          *)

\* What the platform's check_account_health returns: the flags and the
\* score _determine_account_status reads.
HealthResults ==
    [shadowbanned : BOOLEAN, rate_limited : BOOLEAN, health_score : {40, 85}]

\* The ways the token decryption or the platform call raises: with a
\* message naming the token or the authentication, or with another one.
HealthErrors == {"token_error", "other_error"}

\* A health check whose call raises, and one whose platform call returns
\* health_result.
FailedHealthChecks ==
    {<<error, [shadowbanned |-> FALSE, rate_limited |-> FALSE,
               health_score |-> 85]>> : error \in HealthErrors}

HealthChecks ==
    {<<"none", health_result>> : health_result \in HealthResults}
    \cup FailedHealthChecks

\* HealthMonitoringService._determine_account_status
determine_account_status(health_result) ==
    IF health_result.shadowbanned THEN "shadowbanned"
    ELSE IF health_result.rate_limited THEN "rate_limited"
    ELSE IF health_result.health_score < 50 THEN "suspended"
    ELSE "active"

\* largest number of health checks running at the same time
MaxCheckers == 2

Checkers == 1..MaxCheckers

HealthIdleRec == [pc |-> "idle", account |-> 0, status |-> "none"]

\* POST /health/check/{account_id} up to the await of the platform call:
\* the endpoint loads the account, check_account_health returns at once
\* for a platform without a service and decrypts the stored token.  When
\* decrypt_token raises (InvalidToken, whose message is empty) the except
\* branch sets health_score "0" and commits before anything is awaited, so
\* the status stays.  Otherwise the checker keeps the status it loaded and
\* waits for the platform.
BeginHealthCheck(c, a, token_ok) ==
    /\ c \in Checkers
    /\ a \in AccountIds
    /\ health[c].pc = "idle"
    /\ accounts[a].platform \in {"instagram", "tiktok"}
    /\ IF token_ok
       THEN /\ health' = [health EXCEPT ![c] =
                    [pc |-> "checking", account |-> a,
                     status |-> accounts[a].status]]
            /\ UNCHANGED accounts
       ELSE /\ accounts' = [accounts EXCEPT ![a].health_score = 0]
            /\ UNCHANGED health
    /\ HealthFrame

\* The status a health check stores for an account it loaded with status
\* loaded and whose row holds status current: the object is compared with
\* and set from the values loaded before the await, and the UPDATE writes
\* only the attributes whose value differs from the loaded one.
StoredStatus(loaded, current, error, health_result) ==
    LET new_status ==
            IF error = "token_error" THEN "disconnected"
            ELSE IF error = "other_error" THEN loaded
            ELSE determine_account_status(health_result)
    IN  IF new_status /= loaded THEN new_status ELSE current

\* HealthMonitoringService.check_account_health from the return of the
\* platform call.  When the call returns, the new score is set and the new
\* status is set if it differs from the loaded one, then the write to
\* social_account.metadata (the declarative MetaData, not the meta_data
\* column) raises; the except branch sets health_score "0" and commits, so
\* the status is stored with score 0.  When the call itself raises the
\* status is set to disconnected for a token or authentication error and
\* left otherwise.
check_account_health(c, error, health_result) ==
    /\ c \in Checkers
    /\ health[c].pc = "checking"
    /\ LET a == health[c].account
       IN  accounts' = [accounts EXCEPT ![a] =
               [accounts[a] EXCEPT
                   !.status = StoredStatus(health[c].status, accounts[a].status,
                                           error, health_result),
                   !.health_score = 0]]
    /\ health' = [health EXCEPT ![c] = HealthIdleRec]
    /\ HealthFrame

\* DELETE /accounts/{account_id} of the distribution API.  (The OAuth
\* callback stores nothing for an account that exists: its update of
\* existing_account.metadata raises before the commit.)
disconnect_account(a) ==
    /\ a \in AccountIds
    /\ accounts' = [accounts EXCEPT ![a].status = "disconnected"]
    /\ UNCHANGED <<now, posts, workers, platformPosts, sweepLog>>
    /\ PubFrame

ReqIdle ==
    /\ health = [c \in Checkers |-> HealthIdleRec]
    /\ uploadReq = [pc |-> "idle", todo |-> <<>>]

----------------------------------------------------------------------------
(* PublishDispatcher: get_next_posts_to_publish and publish_social_post    *)

\* number of rows of scheduled_posts the dispatcher model starts with
NumPosts == 2
\* the same for the model of a post's life under every operation
NumRetryPosts == 1
\* the clock of that model stops advancing after this many ticks
MaxRetryTicks == 1
\* largest `limit` a sweep passes to get_next_posts_to_publish
MaxLimit == 2
\* max_retries=3 of publish_with_retry
PublishMaxRetries == 3

Workers == {1, 2}

SupportedPlatforms == {"instagram", "tiktok"}

\* Variant of Due without the status filter: every row whose time has come.
DueAnyStatus == {p \in PostIds : posts[p].scheduled_time <= now}

\* The filter of get_next_posts_to_publish: status pending and
\* scheduled_time <= now.
Due == {p \in PostIds : posts[p].status = "pending" /\ posts[p].scheduled_time <= now}

\* p comes before q in order_by(ScheduledPost.scheduled_time); rows with
\* equal times come in table order.
Before(p, q) ==
    \/ posts[p].scheduled_time < posts[q].scheduled_time
    \/ posts[p].scheduled_time = posts[q].scheduled_time /\ p < q

RECURSIVE SortedDue(_)
SortedDue(S) ==
    IF S = {} THEN <<>>
    ELSE LET first == CHOOSE p \in S : \A q \in S \ {p} : Before(p, q)
         IN  <<first>> \o SortedDue(S \ {first})

\* Variant of get_next_posts_to_publish that orders by scheduled_time
\* descending: the limit keeps the latest due posts.
get_latest_posts_to_publish(limit) ==
    LET due == SortedDue(Due)
    IN  SubSeq(due, Len(due) - Min(limit, Len(due)) + 1, Len(due))

\* get_next_posts_to_publish(db, limit)
get_next_posts_to_publish(limit) ==
    LET due == SortedDue(Due)
    IN  SubSeq(due, 1, Min(limit, Len(due)))

WorkerIdle ==
    [pc |-> "idle", queue |-> <<>>, post |-> 0, status |-> "none",
     retry_count |-> 0, attempts |-> 0, last_error |-> "none"]

\* The worker goes on to the next post of its sweep, or ends the sweep.
NextInQueue(w) ==
    IF workers[w].queue = <<>>
    THEN WorkerIdle
    ELSE [WorkerIdle EXCEPT !.pc = "start",
                            !.post = Head(workers[w].queue),
                            !.queue = Tail(workers[w].queue)]

\* A sweep starts: the due posts are selected and publish_social_post is
\* invoked for each of them in turn.
StartSweep(w, limit) ==
    /\ workers[w].pc = "idle"
    /\ LET selected == get_next_posts_to_publish(limit)
       IN  IF selected = <<>>
           THEN workers' = workers
           ELSE workers' = [workers EXCEPT ![w] =
                    [WorkerIdle EXCEPT !.pc = "start", !.post = Head(selected),
                                       !.queue = Tail(selected)]]
    /\ UNCHANGED <<now, accounts, posts, platformPosts>>
    /\ PubFrame

\* The sweep bookkeeping of a StartSweep step: how many sweeps started since
\* the clock last advanced, and whether one of them left due posts behind
\* because of its limit.
LogSweep(limit) ==
    sweepLog' = [started |-> Min(sweepLog.started + 1, 2),
                 truncated |-> sweepLog.truncated \/ Cardinality(Due) > limit]

\* `if scheduled_post.status != "pending": return skipped`
StillPending(status) == status = "pending"

\* publish_social_post, first query: the post is loaded into the session;
\* a post that is no longer pending is skipped.
LoadPost(w) ==
    LET wk == workers[w]
        row == posts[wk.post]
    IN  /\ wk.pc = "start"
        /\ IF StillPending(row.status)
           THEN workers' = [workers EXCEPT ![w] =
                    [wk EXCEPT !.pc = "loaded", !.status = row.status,
                               !.retry_count = row.retry_count]]
           ELSE workers' = [workers EXCEPT ![w] = NextInQueue(w)]
        /\ UNCHANGED <<now, accounts, posts, platformPosts, sweepLog>>
        /\ PubFrame

\* The except branch of publish_social_post: the session's ScheduledPost
\* object (status and retry_count as loaded) is rescheduled when can_retry()
\* holds, and marked failed with the error otherwise; then db.commit().
AfterFailure(w, error) ==
    LET wk == workers[w]
        row == posts[wk.post]
    IN  IF can_retry(wk.status, wk.retry_count)
        THEN Rescheduled(row, wk.retry_count)
        ELSE [row EXCEPT !.status = "failed", !.error_message = error]

\* publish_social_post from the account query to the decryption of the
\* account's token: a missing content piece raises, an unhealthy account
\* fails the post, an unsupported platform raises, and so does
\* service.decrypt_token for a token that was not encrypted under the key
\* of this process (ENCRYPTION_KEY unset: a fresh key per process); the
\* message of that InvalidToken is empty.
CheckAccount(w, token_ok) ==
    LET wk == workers[w]
        row == posts[wk.post]
        account == accounts[row.social_account_id]
    IN  /\ wk.pc = "loaded"
        /\ IF row.content_piece_id \notin 1..Len(contentTable)
           THEN /\ posts' = [posts EXCEPT ![wk.post] =
                        AfterFailure(w, "content_piece_not_found")]
                /\ workers' = [workers EXCEPT ![w] = NextInQueue(w)]
           ELSE IF ~is_healthy(account)
           THEN /\ posts' = [posts EXCEPT ![wk.post] =
                        [row EXCEPT !.status = "failed", !.error_message = "unhealthy"]]
                /\ workers' = [workers EXCEPT ![w] = NextInQueue(w)]
           ELSE IF account.platform \notin SupportedPlatforms
           THEN /\ posts' = [posts EXCEPT ![wk.post] =
                        AfterFailure(w, "unsupported_platform")]
                /\ workers' = [workers EXCEPT ![w] = NextInQueue(w)]
           ELSE IF ~token_ok
           THEN /\ posts' = [posts EXCEPT ![wk.post] = AfterFailure(w, "")]
                /\ workers' = [workers EXCEPT ![w] = NextInQueue(w)]
           ELSE /\ posts' = posts
                /\ workers' = [workers EXCEPT ![w] = [wk EXCEPT !.pc = "publishing"]]
        /\ UNCHANGED <<now, accounts, platformPosts, sweepLog>>
        /\ PubFrame

\* The errors publish_post raises: a rate limit, another transient error
\* (timeout, outage), a fatal one (invalid credentials, banned account).
PublishErrors == {"rate_limit", "transient", "fatal"}

\* One iteration of `for attempt in range(max_retries)` of
\* service.publish_with_retry(..., max_retries=3): publish_post returns
\* and so does the call, or it raises, the error is kept in last_error and
\* the loop goes on after a sleep, whatever the error; after the last
\* iteration the call raises.  Other requests run between two iterations.
PublishAttempt(w, outcome) ==
    LET wk == workers[w]
    IN  /\ wk.pc = "publishing"
        /\ wk.attempts < PublishMaxRetries
        /\ IF outcome = "ok"
           THEN /\ platformPosts' =
                        [platformPosts EXCEPT ![wk.post] = platformPosts[wk.post] + 1]
                /\ workers' = [workers EXCEPT ![w] =
                        [wk EXCEPT !.pc = "published", !.attempts = wk.attempts + 1]]
           ELSE /\ platformPosts' = platformPosts
                /\ workers' = [workers EXCEPT ![w] =
                        [wk EXCEPT !.pc = IF wk.attempts + 1 = PublishMaxRetries
                                          THEN "raised" ELSE "publishing",
                                   !.attempts = wk.attempts + 1,
                                   !.last_error = outcome]]
        /\ UNCHANGED <<now, accounts, posts, sweepLog>>
        /\ PubFrame

\* The publish succeeded: status published, published_at, db.commit().
CommitPublished(w) ==
    LET wk == workers[w]
    IN  /\ wk.pc = "published"
        /\ posts' = [posts EXCEPT ![wk.post] =
                [posts[wk.post] EXCEPT !.status = "published"]]
        /\ workers' = [workers EXCEPT ![w] = NextInQueue(w)]
        /\ UNCHANGED <<now, accounts, platformPosts, sweepLog>>
        /\ PubFrame

\* publish_with_retry raised: the except branch runs and commits.
HandleFailure(w) ==
    LET wk == workers[w]
    IN  /\ wk.pc = "raised"
        /\ posts' = [posts EXCEPT ![wk.post] = AfterFailure(w, "publish_error")]
        /\ workers' = [workers EXCEPT ![w] = NextInQueue(w)]
        /\ UNCHANGED <<now, accounts, platformPosts, sweepLog>>
        /\ PubFrame

----------------------------------------------------------------------------
(* PipelineOrchestrator: BatchProcessor.process_batch and its stages       *)

\* largest number of prompts of a batch, and of content_pieces rows
MaxItems == 2

\* largest batch of one of two concurrent schedule requests
MaxConcBatch == 2

ItemIdx == 1..MaxItems

\* ContentPiece.url before the upload (the Generator's URL) and after it
ReplicateUrl == "replicate"
R2Url == "r2_url"

\* process_batch is not running.  cursor counts the items the loop of the
\* running stage is done with.  rejected_count is the "rejected_count" of
\* the safety_check entry of step_metrics.  hook_failed, rejected, upload_failed and
\* save_failed are history: the pieces whose stage call raised or rejected.
BatchIdleRec ==
    [pc |-> "idle", num_pieces |-> 0, custom |-> 0, enhance |-> FALSE,
     include_hooks |-> FALSE, safety_check |-> FALSE,
     upload_to_storage |-> FALSE, custom_tiers |-> <<>>,
     templates |-> <<>>, items |-> <<>>,
     cursor |-> 0, saved |-> <<>>, rejected_count |-> 0,
     hook_failed |-> {}, rejected |-> {},
     upload_failed |-> {}, save_failed |-> {}]

BatchIdle ==
    /\ batch = BatchIdleRec
    /\ contentTable = <<>>
    /\ generatorCalls = 0

\* The ContentPiece batch_generate_images creates for prompt j, joined by
\* _generate_images with the template at position k of the zip; its tier
\* is custom_tiers[k] when custom_tiers has a k-th element (<<>> for None),
\* the template's tier otherwise.
NewItem(j, k, templates, custom_tiers) ==
    [piece |-> j, template |-> k,
     access_tier |-> IF k <= Len(custom_tiers) THEN custom_tiers[k]
                     ELSE TierOf(templates[k]),
     url |-> ReplicateUrl, hook_text |-> "none", safety_rating |-> "none",
     content_type |-> "image", id |-> 0]

\* process_batch, step 1: templates = self._select_templates(...).  A
\* batch with custom prompts makes one template per prompt.
StartBatch(num_pieces, custom, custom_tiers, enhance, hooks, safety, upload, draws) ==
    /\ batch.pc = "idle"
    /\ LET templates ==
               select_templates("other", num_pieces, <<6, 3, 1>>, custom, draws)
       IN  /\ Len(templates) <= MaxItems
           /\ batch' = [BatchIdleRec EXCEPT
                            !.pc = "selected", !.num_pieces = num_pieces,
                            !.custom = custom, !.enhance = enhance,
                            !.include_hooks = hooks,
                            !.safety_check = safety,
                            !.upload_to_storage = upload,
                            !.custom_tiers = custom_tiers,
                            !.templates = templates]
    /\ UNCHANGED <<contentTable, generatorCalls, dbVars, sched>>
    /\ BatchFrame

\* The items _generate_images returns: zip(content_pieces, templates,
\* prompts), content_pieces being the list batch_generate_images returned,
\* given by the prompt indices of its pieces.
GeneratedItems(pieces, templates, custom_tiers) ==
    [k \in 1..Len(pieces) |-> NewItem(pieces[k], k, templates, custom_tiers)]

\* process_batch, step 2: _generate_images up to its first await that
\* suspends.  With prompt enhancement and a prompt to enhance that is the
\* await of enhance_prompts; otherwise it is the gather of
\* batch_generate_images, which has created one coroutine per prompt and
\* scheduled their wrappers.
BeginGenerate ==
    /\ batch.pc = "selected"
    /\ genPc = "done"
    /\ IF batch.enhance /\ Len(batch.templates) > 0
       THEN /\ batch' = [batch EXCEPT !.pc = "enhancing"]
            /\ UNCHANGED genVars
       ELSE /\ batch' = [batch EXCEPT !.pc = "generating"]
            /\ prompts' = Len(batch.templates)
            /\ taskState' = [i \in PromptIdx |-> "waiting"]
            /\ semaphore' = SemaphoreLimit
            /\ content_pieces' = <<>>
            /\ genPc' = "gather"
            /\ overtook' = FALSE
    /\ UNCHANGED <<contentTable, generatorCalls, dbVars, sched>>
    /\ UNCHANGED <<selVars, pubVars, infVars, reqVars>>

\* The await of prompt_enhancer.enhance_prompts is over.  enhance_prompts
\* awaits one completion per prompt with no handler, so a failing one
\* raises out of process_batch before any Generator call; otherwise
\* _generate_images goes on to the gather of batch_generate_images.
enhance_prompts(enhance_failed) ==
    /\ batch.pc = "enhancing"
    /\ IF enhance_failed
       THEN /\ batch' = [batch EXCEPT !.pc = "raised"]
            /\ UNCHANGED genVars
       ELSE /\ batch' = [batch EXCEPT !.pc = "generating"]
            /\ prompts' = Len(batch.templates)
            /\ taskState' = [i \in PromptIdx |-> "waiting"]
            /\ semaphore' = SemaphoreLimit
            /\ content_pieces' = <<>>
            /\ genPc' = "gather"
            /\ overtook' = FALSE
    /\ UNCHANGED <<contentTable, generatorCalls, dbVars, sched>>
    /\ UNCHANGED <<selVars, pubVars, infVars, reqVars>>

\* batch_generate_images has returned: _generate_images zips its pieces
\* with the templates and the prompts and returns the items.
ZipGenerated ==
    /\ batch.pc = "generating"
    /\ genPc = "done"
    /\ batch' = [batch EXCEPT
                    !.pc = "generated",
                    !.items = GeneratedItems(content_pieces, batch.templates,
                                             batch.custom_tiers)]
    /\ UNCHANGED <<contentTable, generatorCalls, dbVars, sched>>
    /\ BatchFrame

\* _generate_hooks on one item: the first hook is kept; no hooks, or an
\* exception, leave the piece without hook_text.
WithHook(item, result) ==
    IF result = "hooks" THEN [item EXCEPT !.hook_text = "hook"]
    ELSE IF result = "error" THEN [item EXCEPT !.hook_text = "none"]
    ELSE item

\* process_batch, step 3: _generate_hooks, if config.include_hooks, up to
\* the await of its first generate_hooks call.  Before its loop it reads
\* avatar.meta_data, and for an avatar whose meta_data is empty or None
\* avatar.metadata, the MetaData object of the declarative base, whose .get
\* raises AttributeError out of process_batch.
GenerateHooks(avatar_has_meta) ==
    /\ batch.pc = "generated"
    /\ batch' =
         IF ~batch.include_hooks THEN [batch EXCEPT !.pc = "captioned"]
         ELSE IF ~avatar_has_meta THEN [batch EXCEPT !.pc = "raised"]
         ELSE IF batch.items = <<>> THEN [batch EXCEPT !.pc = "captioned"]
         ELSE [batch EXCEPT !.pc = "captioning"]
    /\ UNCHANGED <<contentTable, generatorCalls, dbVars, sched>>
    /\ BatchFrame

\* One iteration of the loop of _generate_hooks: the awaited
\* hook_gen.generate_hooks call of the item after the cursor returns or
\* raises and the piece's hook_text is set before the call of the next
\* item is awaited; after the last item _generate_hooks returns.
generate_hooks(result) ==
    LET k == batch.cursor + 1
        last == k >= Len(batch.items)
    IN  /\ batch.pc = "captioning"
        /\ batch' = [batch EXCEPT
                !.pc = IF last THEN "captioned" ELSE "captioning",
                !.cursor = IF last THEN 0 ELSE k,
                !.items[k] = WithHook(batch.items[k], result),
                !.hook_failed = IF result = "error"
                                THEN batch.hook_failed \cup {batch.items[k].piece}
                                ELSE batch.hook_failed]
        /\ UNCHANGED <<contentTable, generatorCalls, dbVars, sched>>
        /\ BatchFrame

\* batch_check_safety: an exception of check_image_safety counts as a
\* rejected rating.
SafetyRating(verdict) == IF verdict = "error" THEN "rejected" ELSE verdict

\* safety["access_tier"] of a rating: capa1, capa2, capa3.
SafetyTier(rating) ==
    CASE rating = "safe" -> 1 [] rating = "suggestive" -> 2 [] OTHER -> 3

\* Variant of IsRejected that lets every rating pass.
NeverRejected(rating) == FALSE

\* `if safety["rating"] == SafetyRating.REJECTED: continue`
IsRejected(rating) == rating = "rejected"

\* The loop of _safety_check: rejected items are skipped, the others get
\* their rating and the rating's access tier.
SafePieces(items, verdict) ==
    LET kept == SelectSeq([k \in 1..Len(items) |-> k],
                          LAMBDA k : ~IsRejected(SafetyRating(verdict[k])))
    IN  [i \in 1..Len(kept) |->
            LET rating == SafetyRating(verdict[kept[i]])
            IN  [items[kept[i]] EXCEPT !.safety_rating = rating,
                                       !.access_tier = SafetyTier(rating)]]

\* process_batch, step 4: _safety_check, if config.safety_check.
SafetyCheck(verdict) ==
    /\ batch.pc = "captioned"
    /\ batch' = [batch EXCEPT
            !.pc = "moderated",
            !.items = IF batch.safety_check
                      THEN SafePieces(batch.items, verdict)
                      ELSE batch.items,
            !.rejected_count =
                      IF batch.safety_check
                      THEN batch.num_pieces - Len(SafePieces(batch.items, verdict))
                      ELSE 0,
            !.rejected = IF batch.safety_check
                         THEN {batch.items[k].piece : k \in
                                 {k \in 1..Len(batch.items) :
                                     SafetyRating(verdict[k]) = "rejected"}}
                         ELSE {}]
    /\ UNCHANGED <<contentTable, generatorCalls, dbVars, sched>>
    /\ BatchFrame

\* Variant of AfterUpload that forgets a piece whose upload failed.
AfterUploadDropping(items, k, result) ==
    IF result = "uploaded" THEN [items EXCEPT ![k].url = R2Url]
    ELSE SubSeq(items, 1, k - 1) \o SubSeq(items, k + 1, Len(items))

\* The items after the iteration of the loop of _upload_to_storage on item
\* k: piece.url becomes the R2 URL; on an exception the piece keeps its
\* original URL and stays in the list.
AfterUpload(items, k, result) ==
    IF result = "uploaded" THEN [items EXCEPT ![k].url = R2Url]
    ELSE items

\* process_batch, step 5: _upload_to_storage, if config.upload_to_storage,
\* up to the await of the download of its first piece.
UploadToStorage ==
    /\ batch.pc = "moderated"
    /\ batch' = IF batch.upload_to_storage /\ batch.items /= <<>>
                THEN [batch EXCEPT !.pc = "uploading"]
                ELSE [batch EXCEPT !.pc = "stored"]
    /\ UNCHANGED <<contentTable, generatorCalls, dbVars, sched>>
    /\ BatchFrame

\* One iteration of the loop of _upload_to_storage: the awaited download
\* of the piece after the cursor returns or raises, storage.upload_file
\* stores the image or raises, and piece.url is set before the download of
\* the next piece is awaited; after the last piece _upload_to_storage
\* returns.
upload_file(result) ==
    LET k == batch.cursor + 1
        items == AfterUpload(batch.items, k, result)
        last == k >= Len(items)
    IN  /\ batch.pc = "uploading"
        /\ batch' = [batch EXCEPT
                !.pc = IF last THEN "stored" ELSE "uploading",
                !.cursor = IF last THEN 0 ELSE k,
                !.items = items,
                !.upload_failed = IF result = "failed"
                                  THEN batch.upload_failed \cup {batch.items[k].piece}
                                  ELSE batch.upload_failed]
        /\ UNCHANGED <<contentTable, generatorCalls, dbVars, sched>>
        /\ BatchFrame

\* Variant of TableAfterSave in which a failed commit rolls back the rows
\* saved before it in the batch.
TableAfterSaveRollingBack(table, saved, item, ok) ==
    IF ok THEN Append(table, [item EXCEPT !.id = Len(table) + 1])
    ELSE SubSeq(table, 1, Len(table) - Len(saved))

\* content_pieces after one iteration of _save_to_database: db.add and
\* db.commit add the row; on an exception db.rollback undoes only the
\* pending row.
TableAfterSave(table, saved, item, ok) ==
    IF ok THEN Append(table, [item EXCEPT !.id = Len(table) + 1])
    ELSE table

\* process_batch, step 6: one iteration of the loop of _save_to_database.
SaveToDatabase(ok) ==
    LET item == batch.items[batch.cursor + 1]
        table == TableAfterSave(contentTable, batch.saved, item, ok)
    IN  /\ batch.pc = "stored"
        /\ batch.cursor < Len(batch.items)
        /\ contentTable' = table
        /\ batch' = [batch EXCEPT
                !.cursor = batch.cursor + 1,
                !.saved = IF ok THEN Append(batch.saved, table[Len(table)])
                          ELSE batch.saved,
                !.save_failed = IF ok THEN batch.save_failed
                                ELSE batch.save_failed \cup {item.piece}]
        /\ UNCHANGED <<generatorCalls, dbVars, sched>>
        /\ BatchFrame

\* process_batch, step 7 and the return: the result lists the saved pieces.
ReturnBatch ==
    /\ batch.pc = "stored"
    /\ batch.cursor = Len(batch.items)
    /\ batch' = [batch EXCEPT !.pc = "returned"]
    /\ UNCHANGED <<contentTable, generatorCalls, dbVars, sched>>
    /\ BatchFrame

\* The ids of a set in the order of the table.
RECURSIVE InIdOrder(_)
InIdOrder(ids) ==
    IF ids = {} THEN <<>>
    ELSE LET first == CHOOSE i \in ids : \A j \in ids : i <= j
         IN  <<first>> \o InIdOrder(ids \ {first})

\* POST /upload-batch of the content API for the stored pieces with the
\* given ids: the pieces are queried once; none found is a 404.
UploadContentBatch(content_ids) ==
    /\ uploadReq.pc = "idle"
    /\ content_ids \cap (1..Len(contentTable)) /= {}
    /\ uploadReq' = [pc |-> "uploading",
                     todo |-> InIdOrder(content_ids \cap (1..Len(contentTable)))]
    /\ UNCHANGED contentTable
    /\ UploadFrame

\* One iteration of `for piece in content_pieces` of upload_content_batch:
\* the piece is downloaded and uploaded (both awaited), gets its R2 URL and
\* is committed; a piece whose download or uploadReq raises keeps its URL.
\* Other requests run between two iterations.
UploadPiece(result) ==
    /\ uploadReq.pc = "uploading"
    /\ LET i == Head(uploadReq.todo)
       IN  contentTable' =
               IF result = "uploaded"
               THEN [contentTable EXCEPT ![i].url = R2Url]
               ELSE contentTable
    /\ uploadReq' = IF Len(uploadReq.todo) = 1
                    THEN [pc |-> "idle", todo |-> <<>>]
                    ELSE [uploadReq EXCEPT !.todo = Tail(uploadReq.todo)]
    /\ UploadFrame

\* POST /schedule of the distribution API: the ids of the request go to
\* schedule_batch_posts as they are; no content_pieces row is looked up.
\* use_pattern_randomization defaults to True.
SchedulePosts(c, account, content_piece_ids, use_pattern_randomization) ==
    BeginSchedule(c, account, content_piece_ids, <<>>, use_pattern_randomization)

----------------------------------------------------------------------------
(* ModalSDXLLoRAClient.generate_image_with_lora: the retry loop            *)

\* largest MODAL_MAX_RETRIES and MODAL_RETRY_BACKOFF_BASE of the model
MaxModalRetries == 3
MaxBackoffBase == 2

\* MODAL_MAX_RETRIES when the environment does not set it
DefaultModalRetries == 3

\* What one request can end in other than a result: httpx.TimeoutException,
\* httpx.HTTPError, or any other Exception (a status >= 400, an output
\* without image_base64).
ModalFailures == {"timeout", "http_error", "error"}

\* outcomes is the history of the requests made, slept the asyncio.sleep
\* calls made, in order.
ModalIdleRec ==
    [pc |-> "idle", max_retries |-> 0, base |-> 0, attempt |-> 0,
     last_exception |-> "none", raised |-> "none",
     outcomes |-> <<>>, slept |-> <<>>]

\* backoff = self.retry_backoff_base * (2 ** (attempt - 1))
Backoff(base, attempt) == base * 2 ^ (attempt - 1)

\* The sleeps made so far once attempt `attempt` has failed, sleeping after
\* the last attempt as well.
SleptAfterEveryFailure(m, attempt) ==
    Append(m.slept, Backoff(m.base, attempt))

\* The sleeps made so far once attempt `attempt` has failed:
\* "if attempt < self.max_retries: await asyncio.sleep(backoff)".
SleptAfter(m, attempt) ==
    IF attempt < m.max_retries
    THEN Append(m.slept, Backoff(m.base, attempt))
    ELSE m.slept

\* The call, up to the loop: ValueError without an endpoint URL.
ModalGenerate(configured, max_retries, base) ==
    /\ modal.pc = "idle"
    /\ modal' = IF configured
                THEN [ModalIdleRec EXCEPT !.pc = "requesting",
                                          !.max_retries = max_retries,
                                          !.base = base]
                ELSE [ModalIdleRec EXCEPT !.pc = "raised",
                                          !.max_retries = max_retries,
                                          !.base = base,
                                          !.raised = "ValueError"]
    /\ UNCHANGED single
    /\ InfFrame /\ UNCHANGED <<batchVars, dbVars, sched>>

\* One iteration of "while attempt < self.max_retries": the request, and
\* on a failure the backoff before the next iteration.
ModalAttempt(outcome) ==
    /\ modal.pc = "requesting"
    /\ modal.attempt < modal.max_retries
    /\ LET attempt == modal.attempt + 1
       IN  modal' = IF outcome = "ok"
                    THEN [modal EXCEPT !.pc = "returned",
                                       !.attempt = attempt,
                                       !.outcomes = Append(@, outcome)]
                    ELSE [modal EXCEPT !.attempt = attempt,
                                       !.outcomes = Append(@, outcome),
                                       !.last_exception = outcome,
                                       !.slept = SleptAfter(modal, attempt)]
    /\ UNCHANGED single
    /\ InfFrame /\ UNCHANGED <<batchVars, dbVars, sched>>

\* After the loop: "if last_exception: raise last_exception", else the
\* generic Exception.
ModalExhausted ==
    /\ modal.pc = "requesting"
    /\ modal.attempt >= modal.max_retries
    /\ modal' = [modal EXCEPT
                    !.pc = "raised",
                    !.raised = IF modal.last_exception # "none"
                               THEN modal.last_exception
                               ELSE "Exception"]
    /\ UNCHANGED single
    /\ InfFrame /\ UNCHANGED <<batchVars, dbVars, sched>>

----------------------------------------------------------------------------
(* POST /api/v1/content/generate: generate_single_content, the engine's    *)
(* generate_image_with_lora and fallback_generate_image                    *)

\* largest number of requests served one after the other
MaxRequests == 2

\* Strings that are taken apart are sequences of their parts; None and the
\* empty string are the empty sequence.
None == <<>>
DataUrlPrefix == <<"data:image/png;base64,">>
StartsWith(s, prefix) ==
    /\ Len(s) >= Len(prefix)
    /\ SubSeq(s, 1, Len(prefix)) = prefix

\* model_info.provider of the fallback generator's result
FallbackProvider == "replicate-fallback"

\* What LoRAInferenceEngine.generate_image_with_lora returns when
\* replicate.async_run returned: the output's URL, no model_info.
EngineResult ==
    [image_url |-> <<ReplicateUrl>>, image_base64 |-> None, provider |-> "none"]

\* fallback_generate_image: a 1x1 PNG as base64, no URL.
fallback_generate_image ==
    [image_url |-> None, image_base64 |-> <<"iVBORw0KGgo">>,
     provider |-> FallbackProvider]

NoResult == [image_url |-> None, image_base64 |-> None, provider |-> "none"]

\* LoRAInferenceEngine.generate_image_with_lora, given what
\* replicate.async_run does: ValueError for an avatar without LoRA weights,
\* else the result, or Exception("LoRA inference failed: ...") when the
\* call raised.
generate_image_with_lora(avatar, provider_outcome) ==
    IF avatar = "trained" /\ provider_outcome = "ok"
    THEN [raised |-> FALSE, result |-> EngineResult]
    ELSE [raised |-> TRUE, result |-> NoResult]

\* provider_failed, engine_raised and used_fallback are history of the
\* request being served, stored is the id of the ContentPiece it added (0:
\* none); status is the HTTP status of the exception raised, requests the
\* requests accepted so far.
SingleIdleRec ==
    [pc |-> "idle", template |-> 0, tier |-> 0, fallback_enabled |-> FALSE,
     result |-> NoResult, provider_failed |-> FALSE, engine_raised |-> FALSE,
     used_fallback |-> FALSE, stored |-> 0, status |-> 0,
     requests |-> 0]

InfIdle ==
    /\ modal = ModalIdleRec
    /\ single = SingleIdleRec

\* generate_single_content up to the engine call.  template is the
\* template_id of the request (0: none), tier its tier (0: none);
\* fallback_enabled is ENABLE_REPLICATE_FALLBACK == "true".
GenerateSingleContent(avatar, template, custom_prompt, tier, fallback_enabled) ==
    /\ single.pc \in {"idle", "returned", "raised"}
    /\ single.requests < MaxRequests
    /\ LET request == [SingleIdleRec EXCEPT
                          !.template = template, !.tier = tier,
                          !.fallback_enabled = fallback_enabled,
                          !.requests = single.requests + 1]
           Raise(status) == [request EXCEPT !.pc = "raised", !.status = status]
       IN  single' =
             IF avatar = "missing" THEN Raise(404)
             ELSE IF avatar = "untrained" THEN Raise(400)
             ELSE IF template # 0
                  THEN IF template \in 1..CatalogSize
                       THEN [request EXCEPT !.pc = "engine"]
                       ELSE Raise(404)
                  ELSE IF custom_prompt
                       THEN [request EXCEPT !.pc = "engine"]
                       ELSE Raise(400)
    /\ UNCHANGED modal
    /\ InfFrame /\ UNCHANGED <<batchVars, dbVars, sched>>

\* LoRAInferenceEngine.generate_with_template for an Avatar of the session:
\* its first statement reads avatar.metadata.get("personality", {}), and
\* avatar.metadata is the MetaData object of the declarative base (the
\* column is meta_data), so AttributeError is raised before the provider is
\* called.
generate_with_template(avatar, provider_outcome) ==
    [raised |-> TRUE, result |-> NoResult]

\* The engine call returns or raises: generate_with_template for a request
\* with a template_id, generate_image_with_lora for a custom prompt.  The
\* except branch substitutes the fallback generator's result when the
\* fallback is enabled and re-raises otherwise.
EngineReturns(provider_outcome) ==
    /\ single.pc = "engine"
    /\ LET call == IF single.template # 0
                   THEN generate_with_template("trained", provider_outcome)
                   ELSE generate_image_with_lora("trained", provider_outcome)
           called == [single EXCEPT
                         !.provider_failed =
                             (single.template = 0 /\ provider_outcome # "ok"),
                         !.engine_raised = call.raised]
       IN  single' =
             IF ~call.raised
             THEN [called EXCEPT !.pc = "persist", !.result = call.result]
             ELSE IF single.fallback_enabled
                  THEN [called EXCEPT !.pc = "persist",
                                      !.used_fallback = TRUE,
                                      !.result = fallback_generate_image]
                  ELSE [called EXCEPT !.pc = "raised", !.status = 500]
    /\ UNCHANGED modal
    /\ InfFrame /\ UNCHANGED <<batchVars, dbVars, sched>>

\* image_url = result.get("image_url") alone.
ImageUrlOnly(result) == result.image_url

\* image_url = result.get("image_url"), or the data URL of image_base64.
ImageUrl(result) ==
    IF result.image_url = None /\ result.image_base64 # None
    THEN DataUrlPrefix \o result.image_base64
    ELSE result.image_url

\* The rest of generate_single_content: 502 without an image, else the
\* ContentPiece is added and committed.
PersistContent ==
    /\ single.pc = "persist"
    /\ LET image_url == ImageUrl(single.result)
       IN  IF image_url = None
           THEN /\ single' = [single EXCEPT !.pc = "raised", !.status = 502]
                /\ UNCHANGED contentTable
           ELSE /\ contentTable' = Append(contentTable,
                        [piece |-> 0, template |-> single.template,
                         access_tier |-> IF single.tier # 0 THEN single.tier
                                         ELSE 1,
                         url |-> image_url, hook_text |-> "none",
                         safety_rating |-> "none",
                         content_type |-> "image",
                         id |-> Len(contentTable) + 1])
                /\ single' = [single EXCEPT !.pc = "returned",
                                            !.stored = Len(contentTable) + 1]
    /\ UNCHANGED <<modal, batch, generatorCalls, dbVars, sched>>
    /\ InfFrame

\* largest number of video rows of content_pieces
MaxVideos == 1

VideoRows == {i \in 1..Len(contentTable) : contentTable[i].content_type = "video"}

\* POST /generate of the video API: a missing avatar, a failed generation
\* or download and a failed upload all raise before anything is stored;
\* else a ContentPiece of content_type video and tier capa1 with the R2 URL
\* is added and committed.  (The cost tracking that follows raises, after
\* the commit.)
generate_video(avatar_found, generated, uploaded) ==
    /\ Cardinality(VideoRows) < MaxVideos
    /\ contentTable' =
          IF avatar_found /\ generated /\ uploaded
          THEN Append(contentTable,
                   [piece |-> 0, template |-> 0, access_tier |-> 1,
                    url |-> R2Url, hook_text |-> "none",
                    safety_rating |-> "safe", content_type |-> "video",
                    id |-> Len(contentTable) + 1])
          ELSE contentTable
    /\ UNCHANGED <<modal, single, batch, generatorCalls, dbVars, sched>>
    /\ InfFrame

----------------------------------------------------------------------------
(* Initial states                                                          *)

HealthyAccount(platform, tz) ==
    [platform |-> platform, tz |-> tz, status |-> "active", health_score |-> 100]

\* No scheduler or dispatcher activity: empty tables, idle workers.
DbIdle ==
    /\ now = Epoch
    /\ accounts = [a \in AccountIds |-> HealthyAccount("instagram", "UTC")]
    /\ posts = <<>>

PubIdle ==
    /\ workers = [w \in Workers |-> WorkerIdle]
    /\ platformPosts = [p \in 1..MaxPosts |-> 0]
    /\ sweepLog = [started |-> 0, truncated |-> FALSE]

\* The scheduler starts with an empty scheduled_posts table; account 1 is
\* on any platform and in any of the modelled timezones.
InitSched ==
    /\ now = Epoch
    /\ \E platform \in Platforms, tz \in TzChoices :
          accounts = [a \in AccountIds |->
                        IF a = 1 THEN HealthyAccount(platform, tz)
                        ELSE HealthyAccount("onlyfans", "UTC")]
    /\ posts = <<>>
    /\ SchedIdle

\* Health states of an account: healthy, rate limited, or low health score.
AccountChoices ==
    {HealthyAccount("instagram", "UTC"),
     HealthyAccount("twitter", "UTC"),
     [HealthyAccount("instagram", "UTC") EXCEPT !.status = "rate_limited"],
     [HealthyAccount("instagram", "UTC") EXCEPT !.health_score = 50]}

\* A content_pieces row as a batch stored it.
StoredPiece(k) ==
    [piece |-> k, template |-> k, access_tier |-> 1, url |-> R2Url,
     hook_text |-> "none", safety_rating |-> "safe", content_type |-> "image",
     id |-> k]

\* The dispatcher starts with n pending posts, as schedule_batch_posts
\* created them for the given accounts, due now or two hours from now;
\* post p is for content piece p, and content_pieces holds the first
\* `stored` pieces, for one of the given numbers.
InitDispatch(n, owners, stored_choices) ==
    /\ now = Epoch
    /\ batch = BatchIdleRec
    /\ generatorCalls = 0
    /\ \E stored \in stored_choices :
          contentTable = [k \in 1..stored |-> StoredPiece(k)]
    /\ \E first \in AccountChoices :
          accounts = [a \in AccountIds |->
                        IF a = 1 THEN first ELSE HealthyAccount("tiktok", "UTC")]
    /\ \E owner \in [1..n -> owners], delay \in [1..n -> {0, 2}] :
          posts = [p \in 1..n |->
                      NewPost(owner[p], p, Epoch + delay[p] * MinutesPerHour)]
    /\ PubIdle

\* Two posts; the piece of the last one may be missing.
InitPub == InitDispatch(NumPosts, AccountIds, {NumPosts - 1, NumPosts})

\* Posts of account 1 whose pieces are all stored.
InitRetry == InitDispatch(NumRetryPosts, {1}, {NumRetryPosts})

\* One post, whose piece may be missing.
InitAttempt == InitDispatch(NumRetryPosts, AccountIds, {NumRetryPosts - 1, NumRetryPosts})

----------------------------------------------------------------------------
(* Specifications                                                          *)

NextGen ==
    \/ \E i \in PromptIdx : Acquire(i)
    \/ \E i \in PromptIdx, outcome \in {"ok", "err"} : Finish(i, outcome)
    \/ Collect

\* A batch_generate_images call starts; nothing else runs.
InitSpecGen == InitGen /\ SelIdle /\ DbIdle /\ SchedIdle /\ PubIdle /\ BatchIdle /\ InfIdle /\ ReqIdle

SpecGen == InitSpecGen /\ [][NextGen]_vars

NextSelect ==
    \/ \E niche \in Niches, num_pieces \in 0..MaxCount, ratios \in RatioChoices,
          draws \in DrawStreams :
          SelectTemplates(niche, num_pieces, ratios, 0, draws)
    \/ \E custom \in 1..MaxCustom :
          SelectTemplates("other", custom, <<6, 3, 1>>, custom, <<0>>)
    \/ SelectReturn

\* No _select_templates call is in progress; nothing else runs.
InitSpecSelect == GenIdle /\ SelIdle /\ DbIdle /\ SchedIdle /\ PubIdle /\ BatchIdle /\ InfIdle /\ ReqIdle

SpecSelect == InitSpecSelect /\ [][NextSelect]_vars

\* The clock of the scheduler model advances in steps of 8 hours.
SchedTick ==
    /\ AdvanceClock(8 * MinutesPerHour, MaxTicks)
    /\ UNCHANGED <<sched, pubVars>>

NextSched ==
    \/ \E c \in SerialCallers, a \in ScheduledAccounts, n \in 1..MaxBatch,
          start_date \in {<<>>, <<Epoch + MinutesPerDay>>}, jitter \in BOOLEAN :
          BeginSchedule(c, a, FreshIds(n), start_date, jitter)
    \/ \E c \in SerialCallers, minute \in MinuteChoices :
          ~sched[c].jitter /\ ScheduleItem(c, minute, 0, FALSE)
    \/ \E c \in SerialCallers, minute \in MinuteChoices, minute_offset \in JitterOffsets,
          skip_day \in BOOLEAN :
          sched[c].jitter /\ ScheduleItem(c, minute, minute_offset, skip_day)
    \/ \E c \in SerialCallers : CommitSchedule(c)
    \/ SchedTick

InitSpecSched == GenIdle /\ SelIdle /\ InitSched /\ PubIdle /\ BatchIdle /\ InfIdle /\ ReqIdle

SpecSched == InitSpecSched /\ [][NextSched]_vars

\* The clock of the dispatcher models advances in steps of 2 hours.
PubTick(ticks) ==
    /\ AdvanceClock(2 * MinutesPerHour, ticks)
    /\ UNCHANGED <<sched, workers, platformPosts, sweepLog>>

\* Concurrent dispatch: any idle worker may start a sweep at any time.  The
\* health checks of this specification are those whose decrypt_token
\* raises, the accounts API disconnects.
NextPub ==
    \/ \E w \in Workers, limit \in 1..MaxLimit :
          StartSweep(w, limit) /\ UNCHANGED sweepLog
    \/ \E w \in Workers : LoadPost(w)
    \/ \E w \in Workers : \E token_ok \in BOOLEAN : CheckAccount(w, token_ok)
    \/ \E w \in Workers, outcome \in {"ok", "transient"} : PublishAttempt(w, outcome)
    \/ \E w \in Workers : CommitPublished(w)
    \/ \E w \in Workers : HandleFailure(w)
    \/ \E p \in PostIds : CancelScheduledPost(p)
    \/ BeginHealthCheck(1, 1, FALSE)
    \/ disconnect_account(1)
    \/ PubTick(MaxTicks)

InitSpecPub == GenIdle /\ SelIdle /\ SchedIdle /\ InitPub /\ InfIdle /\ ReqIdle

SpecPub == InitSpecPub /\ [][NextPub]_vars

\* The life of a post under every operation on it and on its account:
\* dispatch by one worker, reschedule_failed_post, cancellation,
\* disconnection of the account.
NextRetry ==
    \/ \E limit \in 1..MaxLimit : StartSweep(1, limit) /\ UNCHANGED sweepLog
    \/ LoadPost(1)
    \/ \E token_ok \in BOOLEAN : CheckAccount(1, token_ok)
    \/ \E outcome \in {"ok", "transient"} : PublishAttempt(1, outcome)
    \/ CommitPublished(1)
    \/ HandleFailure(1)
    \/ \E p \in PostIds : RescheduleFailedPost(p)
    \/ \E p \in PostIds : CancelScheduledPost(p)
    \/ disconnect_account(1)
    \/ PubTick(MaxRetryTicks)

InitSpecRetry == GenIdle /\ SelIdle /\ SchedIdle /\ InitRetry /\ InfIdle /\ ReqIdle

SpecRetry == InitSpecRetry /\ [][NextRetry]_vars

\* The clock advances between sweeps: the next sweep is a first run again.
SweepTick ==
    /\ AdvanceClock(2 * MinutesPerHour, MaxTicks)
    /\ sweepLog' = [started |-> 0, truncated |-> FALSE]
    /\ UNCHANGED <<sched, workers, platformPosts>>

\* One sweep at a time, nothing else touching scheduled_posts between
\* sweeps; the health checks are those whose decrypt_token raises.
NextSweep ==
    \/ \E limit \in 1..MaxLimit : StartSweep(1, limit) /\ LogSweep(limit)
    \/ LoadPost(1)
    \/ \E token_ok \in BOOLEAN : CheckAccount(1, token_ok)
    \/ \E outcome \in {"ok", "transient"} : PublishAttempt(1, outcome)
    \/ CommitPublished(1)
    \/ HandleFailure(1)
    \/ BeginHealthCheck(1, 1, FALSE)
    \/ disconnect_account(1)
    \/ SweepTick

InitSpecSweep == GenIdle /\ SelIdle /\ SchedIdle /\ InitPub /\ InfIdle /\ ReqIdle

SpecSweep == InitSpecSweep /\ [][NextSweep]_vars

\* One post through publish_social_post, publish_with_retry followed
\* request by request, with health checks of the account running at the
\* same time as each other and as the accounts API.
NextAttempt ==
    \/ \E limit \in 1..MaxLimit : StartSweep(1, limit) /\ UNCHANGED sweepLog
    \/ LoadPost(1)
    \/ \E token_ok \in BOOLEAN : CheckAccount(1, token_ok)
    \/ \E outcome \in {"ok"} \cup PublishErrors : PublishAttempt(1, outcome)
    \/ CommitPublished(1)
    \/ HandleFailure(1)
    \/ \E c \in Checkers, token_ok \in BOOLEAN : BeginHealthCheck(c, 1, token_ok)
    \/ \E c \in Checkers, check \in HealthChecks :
          check_account_health(c, check[1], check[2])
    \/ disconnect_account(1)

InitSpecAttempt == GenIdle /\ SelIdle /\ SchedIdle /\ InitAttempt /\ InfIdle /\ ReqIdle

SpecAttempt == InitSpecAttempt /\ [][NextAttempt]_vars

\* Requests without jitter, served one at a time.
NextPlain ==
    \/ \E a \in ScheduledAccounts, n \in 1..MaxBatch :
          BeginSchedule(1, a, FreshIds(n), <<>>, FALSE)
    \/ \E minute \in MinuteChoices : ScheduleItem(1, minute, 0, FALSE)
    \/ CommitSchedule(1)
    \/ SchedTick

InitSpecPlain == GenIdle /\ SelIdle /\ InitSched /\ PubIdle /\ BatchIdle /\ InfIdle /\ ReqIdle

SpecPlain == InitSpecPlain /\ [][NextPlain]_vars

\* Two requests for the same account are served by two worker processes:
\* their steps interleave freely, each sees the committed rows only.
NextConc ==
    \/ \E c \in Callers, n \in 1..MaxConcBatch :
          BeginSchedule(c, 1, FreshIds(n), <<>>, FALSE)
    \/ \E c \in Callers, minute \in MinuteChoices :
          ScheduleItem(c, minute, 0, FALSE)
    \/ \E c \in Callers : CommitSchedule(c)

InitSpecConc == GenIdle /\ SelIdle /\ DbIdle /\ SchedIdle /\ PubIdle /\ BatchIdle /\ InfIdle /\ ReqIdle

SpecConc == InitSpecConc /\ [][NextConc]_vars

\* The verdicts batch_check_safety can return, one per item.
ItemResults(choices) == [ItemIdx -> choices]

\* The custom_tiers of a batch: None, one tier, or one per prompt.
CustomTierLists == {<<>>, <<3>>, <<3, 1>>}

\* The content_piece_ids of a schedule request: one or two ids, of stored
\* pieces or of none, in any order, repeated or not.
ContentIdLists ==
    {<<i>> : i \in 1..MaxItems + 1}
        \cup {<<i, j>> : i \in 1..MaxItems + 1, j \in 1..MaxItems + 1}

\* One process_batch call: under every configuration of the catalog path;
\* with custom prompts, as many as the pieces asked for, and every stage
\* enabled; with custom prompts, any num_pieces and the safety check alone;
\* or with custom_tiers alone.
NextBatch ==
    \/ \E num_pieces \in 0..MaxItems, enhance \in BOOLEAN, include_hooks \in BOOLEAN,
          safety_check \in BOOLEAN, upload \in BOOLEAN, draws \in DrawStreams :
          StartBatch(num_pieces, 0, <<>>, enhance, include_hooks, safety_check,
                     upload, draws)
    \/ \E custom \in 1..MaxCustom, custom_tiers \in CustomTierLists :
          StartBatch(custom, custom, custom_tiers, FALSE, TRUE, TRUE, TRUE,
                     <<0>>)
    \/ \E custom \in 1..MaxCustom, num_pieces \in 0..MaxItems :
          StartBatch(num_pieces, custom, <<>>, FALSE, FALSE, TRUE, FALSE,
                     <<0>>)
    \/ \E custom_tiers \in CustomTierLists \ {<<>>} :
          StartBatch(MaxItems, 0, custom_tiers, FALSE, FALSE, FALSE, FALSE,
                     <<0>>)
    \/ BeginGenerate
    \/ \E enhance_failed \in BOOLEAN : enhance_prompts(enhance_failed)
    \/ \E i \in PromptIdx : Acquire(i)
    \/ \E i \in PromptIdx, outcome \in {"ok", "err"} : Finish(i, outcome)
    \/ Collect
    \/ ZipGenerated
    \/ \E avatar_has_meta \in BOOLEAN : GenerateHooks(avatar_has_meta)
    \/ \E result \in {"hooks", "empty", "error"} : generate_hooks(result)
    \/ \E verdict \in ItemResults({"safe", "suggestive", "borderline", "rejected", "error"}) :
          SafetyCheck(verdict)
    \/ UploadToStorage
    \/ \E result \in {"uploaded", "failed"} : upload_file(result)
    \/ \E ok \in BOOLEAN : SaveToDatabase(ok)
    \/ ReturnBatch

InitSpecBatch == GenIdle /\ SelIdle /\ DbIdle /\ SchedIdle /\ PubIdle /\ BatchIdle /\ InfIdle /\ ReqIdle

SpecBatch == InitSpecBatch /\ [][NextBatch]_vars

\* A process_batch call with every optional stage enabled, then requests
\* to upload and to schedule stored pieces and to generate videos, one
\* schedule request per run.
NextStored ==
    \/ \E num_pieces \in 1..MaxItems, draws \in DrawStreams :
          StartBatch(num_pieces, 0, <<>>, FALSE, TRUE, TRUE, TRUE, draws)
    \/ BeginGenerate
    \/ \E i \in PromptIdx : Acquire(i)
    \/ \E i \in PromptIdx, outcome \in {"ok", "err"} : Finish(i, outcome)
    \/ Collect
    \/ ZipGenerated
    \/ GenerateHooks(TRUE)
    \/ generate_hooks("hooks")
    \/ \E verdict \in ItemResults({"safe", "rejected"}) : SafetyCheck(verdict)
    \/ UploadToStorage
    \/ \E result \in {"uploaded", "failed"} : upload_file(result)
    \/ \E ok \in BOOLEAN : SaveToDatabase(ok)
    \/ ReturnBatch
    \/ \E content_ids \in SUBSET ItemIdx :
          /\ batch.pc = "returned"
          /\ UploadContentBatch(content_ids)
    \/ \E result \in {"uploaded", "failed"} : UploadPiece(result)
    \/ \E generated \in BOOLEAN :
          /\ batch.pc = "returned"
          /\ generate_video(TRUE, generated, TRUE)
    \/ \E content_piece_ids \in ContentIdLists, jitter \in BOOLEAN :
          /\ batch.pc = "returned"
          /\ posts = <<>>
          /\ SchedulePosts(1, 1, content_piece_ids, jitter)
    \/ \E minute_offset \in JitterOffsets, skip_day \in BOOLEAN :
          IF sched[1].jitter
          THEN ScheduleItem(1, 0, minute_offset, skip_day)
          ELSE ScheduleItem(1, 0, 0, FALSE)
    \/ CommitSchedule(1)

InitSpecStored == GenIdle /\ SelIdle /\ DbIdle /\ SchedIdle /\ PubIdle /\ BatchIdle /\ InfIdle /\ ReqIdle

SpecStored == InitSpecStored /\ [][NextStored]_vars

\* One ModalSDXLLoRAClient.generate_image_with_lora call under any
\* MODAL_MAX_RETRIES and MODAL_RETRY_BACKOFF_BASE of the model.
NextModal ==
    \/ \E configured \in BOOLEAN, max_retries \in 0..MaxModalRetries,
          base \in 1..MaxBackoffBase :
            ModalGenerate(configured, max_retries, base)
    \/ \E outcome \in {"ok"} \cup ModalFailures : ModalAttempt(outcome)
    \/ ModalExhausted

InitSpecModal == GenIdle /\ SelIdle /\ DbIdle /\ SchedIdle /\ PubIdle /\ BatchIdle /\ InfIdle /\ ReqIdle

SpecModal == InitSpecModal /\ [][NextModal]_vars

\* One process_batch call with every optional stage enabled, its Generate
\* stage followed wrapper by wrapper.
NextOrder ==
    \/ \E num_pieces \in 1..MaxItems, draws \in DrawStreams :
          StartBatch(num_pieces, 0, <<>>, FALSE, TRUE, TRUE, TRUE, draws)
    \/ BeginGenerate
    \/ \E i \in PromptIdx : Acquire(i)
    \/ \E i \in PromptIdx, outcome \in {"ok", "err"} : Finish(i, outcome)
    \/ Collect
    \/ ZipGenerated
    \/ GenerateHooks(TRUE)
    \/ \E result \in {"hooks", "error"} : generate_hooks(result)
    \/ \E verdict \in ItemResults({"safe", "rejected"}) : SafetyCheck(verdict)
    \/ UploadToStorage
    \/ \E result \in {"uploaded", "failed"} : upload_file(result)
    \/ \E ok \in BOOLEAN : SaveToDatabase(ok)
    \/ ReturnBatch

InitSpecOrder == GenIdle /\ SelIdle /\ DbIdle /\ SchedIdle /\ PubIdle /\ BatchIdle /\ InfIdle /\ ReqIdle

SpecOrder == InitSpecOrder /\ [][NextOrder]_vars

\* Requests to POST /api/v1/content/generate served one after the other,
\* and requests to the video API at any time.
NextContent ==
    \/ \E avatar \in {"missing", "untrained", "trained"},
          template \in {0, 1, CatalogSize + 1}, custom_prompt \in BOOLEAN,
          tier \in 0..3, fallback_enabled \in BOOLEAN :
            GenerateSingleContent(avatar, template, custom_prompt, tier,
                                  fallback_enabled)
    \/ \E provider_outcome \in {"ok", "raises"} :
            EngineReturns(provider_outcome)
    \/ PersistContent
    \/ \E avatar_found \in BOOLEAN, generated \in BOOLEAN, uploaded \in BOOLEAN :
            generate_video(avatar_found, generated, uploaded)

InitSpecContent == GenIdle /\ SelIdle /\ DbIdle /\ SchedIdle /\ PubIdle /\ BatchIdle /\ InfIdle /\ ReqIdle

SpecContent == InitSpecContent /\ [][NextContent]_vars

----------------------------------------------------------------------------
(* Properties                                                              *)

\* C1: during the Generate stage the number of Generator calls in flight at
\* the same time never exceeds the concurrency limit of 5, for any number of
\* prompts.
C1_InFlightBounded == Cardinality(InFlight) <= SemaphoreLimit

\* C1 witness: five calls are in flight while another prompt still waits for
\* the semaphore.
C1_Witness ==
    /\ genPc = "gather"
    /\ Cardinality(InFlight) = SemaphoreLimit
    /\ \E i \in Tasks : taskState[i] = "waiting"

\* j is the post created for the same account right after post i.
NextOfAccount(i, j) ==
    /\ i < j
    /\ posts[i].social_account_id = posts[j].social_account_id
    /\ \A k \in PostIds :
          (i < k /\ k < j) => posts[k].social_account_id /= posts[i].social_account_id

\* C2: with jitter disabled, two consecutive posts schedule_batch_posts
\* created for one account are at least the platform's minimum interval
\* apart, inside one call and across calls.
C2_MinIntervalKept ==
    \A i \in PostIds, j \in PostIds :
        (/\ NextOfAccount(i, j)
         /\ i \notin RandomizedPosts
         /\ j \notin RandomizedPosts)
        => posts[j].scheduled_time - posts[i].scheduled_time
              >= min_interval(accounts[posts[i].social_account_id].platform)
                 * MinutesPerHour

\* C3: a due post is published to the platform at most once, also when two
\* dispatch invocations covering it run concurrently.
C3_PublishedAtMostOnce == \A p \in PostIds : platformPosts[p] <= 1

\* C4: for every batch size N and tier ratios summing to 1.0 the Select
\* stage returns exactly N templates with tier counts floor(N*r1),
\* floor(N*r2), floor(N*r3), the rounding remainder going to tier 1 (30/15/5
\* for N = 50 and 0.6/0.3/0.1).
C4_TierCountsExact ==
    (selPc = "selected" /\ selInput.custom = 0) =>
        LET N == selInput.num_pieces
            f1 == (N * selInput.ratios[1]) \div 10
            f2 == (N * selInput.ratios[2]) \div 10
            f3 == (N * selInput.ratios[3]) \div 10
            remainder == N - (f1 + f2 + f3)
        IN  /\ Len(final_templates) = N
            /\ TierCountOf(final_templates, 1) = f1 + remainder
            /\ TierCountOf(final_templates, 2) = f2
            /\ TierCountOf(final_templates, 3) = f3

\* C5: when Publisher.publish fails for a pending post with retry_count < 3,
\* the post ends pending with retry_count increased by one and
\* scheduled_time moved to now + backoff; it becomes failed, with the error
\* recorded, only when the retries are exhausted.
C5_FailureRescheduled ==
    [][\A w \in Workers :
          (workers[w].pc = "raised" /\ workers'[w].pc /= "raised") =>
              LET p == workers[w].post
                  k == posts[p].retry_count
              IN  IF k < MaxRetries
                  THEN /\ posts'[p].status = "pending"
                       /\ posts'[p].retry_count = k + 1
                       /\ posts'[p].scheduled_time =
                              now + RetryDelay(RetryDelayHours, k) * MinutesPerHour
                  ELSE /\ posts'[p].status = "failed"
                       /\ posts'[p].error_message /= "none"]_vars

\* C6: reschedule_failed_post with base delay 2h on a post with
\* retry_count = k < 3 sets scheduled_time to now + 2h, 4h, 8h for k = 0, 1,
\* 2, increments retry_count and sets status pending; with retry_count = 3
\* (the 4th failure) it sets status failed, and every further call leaves
\* the post failed.
C6_BackoffSequence ==
    [][\A p \in PostIds :
          RescheduleFailedPost(p) =>
              LET k == posts[p].retry_count
                  expected == CASE k = 0 -> 2 [] k = 1 -> 4 [] k = 2 -> 8 [] OTHER -> 0
              IN  IF k < 3
                  THEN /\ posts'[p].scheduled_time = now + expected * MinutesPerHour
                       /\ posts'[p].retry_count = k + 1
                       /\ posts'[p].status = "pending"
                  ELSE /\ posts'[p].status = "failed"
                       /\ posts'[p].retry_count = k
                       /\ posts'[p].scheduled_time = posts[p].scheduled_time]_vars

\* C6 witness: a post was rescheduled three times, the third time 8h from
\* now, and a fourth call marked it failed (no dispatch error is recorded).
C6_Witness ==
    \E p \in PostIds :
        /\ posts[p].status = "failed"
        /\ posts[p].retry_count = 3
        /\ posts[p].scheduled_time = now + 8 * MinutesPerHour
        /\ posts[p].error_message = "none"

\* published, cancelled, and failed after max retries
IsTerminal(row) ==
    \/ row.status \in {"published", "cancelled"}
    \/ row.status = "failed" /\ row.retry_count >= MaxRetries

\* C7: published, failed (after max retries) and cancelled are terminal: no
\* later publish_social_post, reschedule_failed_post or
\* cancel_scheduled_post changes the status of such a post.
C7_TerminalStatusFinal ==
    [][\A p \in PostIds :
          IsTerminal(posts[p]) => posts'[p].status = posts[p].status]_vars

\* C8: when the owning account is not healthy at dispatch time the post is
\* soft-skipped: the row is unchanged (status pending, same retry_count,
\* scheduled_time, error_message), nothing is published, and the post is
\* still due for the next sweep.
C8_UnhealthySoftSkip ==
    [][\A w \in Workers :
          (/\ workers[w].pc = "loaded"
           /\ workers'[w].pc /= "loaded"
           /\ ~is_healthy(accounts[posts[workers[w].post].social_account_id]))
          => /\ posts' = posts
             /\ platformPosts' = platformPosts
             /\ workers[w].post \in Due']_vars

\* Every post a sweep selected and has not processed yet is pending.
SelectedArePending ==
    \A w \in Workers :
        /\ workers[w].pc = "start" => posts[workers[w].post].status = "pending"
        /\ \A j \in 1..Len(workers[w].queue) :
              posts[workers[w].queue[j]].status = "pending"

\* A worker goes past the status check only with a pending post.
ProcessedArePending ==
    \A w \in Workers :
        workers[w].pc \in {"loaded", "publishing", "published", "raised"}
            => workers[w].status = "pending"

\* C9 as stated: a second sweep without time advance changes no state and
\* publishes nothing; published, failed and cancelled posts are never
\* re-selected nor re-processed.
C9_SweepIdempotent ==
    /\ [][sweepLog.started >= 2 =>
            (posts' = posts /\ platformPosts' = platformPosts)]_vars
    /\ [](SelectedArePending /\ ProcessedArePending)

\* C9 amended: the same, for a second sweep that follows sweeps whose limit
\* covered every due post.
C9_SweepIdempotentWithinLimit ==
    /\ [][(sweepLog.started >= 2 /\ ~sweepLog.truncated) =>
            (posts' = posts /\ platformPosts' = platformPosts)]_vars
    /\ [](SelectedArePending /\ ProcessedArePending)

\* C9 witness: a sweep published a post, and a second sweep was started
\* with no time advance and nothing left behind by the limit.
C9_Witness ==
    /\ sweepLog.started >= 2
    /\ ~sweepLog.truncated
    /\ workers[1].pc = "idle"
    /\ \E p \in PostIds : posts[p].status = "published"

\* The posts of account a scheduled on UTC day d.
PostsOnDay(a, d) ==
    {p \in PostIds : posts[p].social_account_id = a /\ DayOf(posts[p].scheduled_time) = d}

\* C10: after any sequence of schedule_batch_posts calls no UTC day holds
\* more of an account's posts than the platform's daily cap.
C10_DailyCapKept ==
    \A p \in PostIds :
        LET a == posts[p].social_account_id
        IN  Cardinality(PostsOnDay(a, DayOf(posts[p].scheduled_time)))
                <= max_posts_per_day(accounts[a].platform)

----------------------------------------------------------------------------
(* Claims C11..C20                                                         *)

\* The hour of day of time t converted to the timezone of account a.
LocalHour(a, t) == HourOf(t + utcoffset(accounts[a].tz, t) * MinutesPerHour)

\* Time t is one of the optimal hours of account a's platform.
AtOptimalHour(a, t) ==
    \E k \in 1..Len(optimal_hours(accounts[a].platform)) :
        optimal_hours(accounts[a].platform)[k] = LocalHour(a, t)

\* Caller c, scheduling without jitter, emits one more post in this step.
EmitsPost(c) ==
    /\ ~sched[c].jitter
    /\ Len(sched'[c].new) = Len(sched[c].new) + 1

\* The post emitted in this step is later than the one emitted before it.
EmittedLater(c) ==
    LET new == sched'[c].new
    IN  Len(new) > 1 => new[Len(new)].scheduled_time > new[Len(new) - 1].scheduled_time

\* C11: with jitter disabled, every post a schedule_batch_posts call emits
\* is later than the one before it and, converted to the account's
\* timezone, lies in an optimal hour of the account's platform, clamped or
\* not.
C11_IncreasingAtOptimalHours ==
    [][\A c \in Callers : EmitsPost(c) =>
          /\ EmittedLater(c)
          /\ AtOptimalHour(sched[c].account,
                           sched'[c].new[Len(sched'[c].new)].scheduled_time)]_vars

\* Two schedule_batch_posts calls for one account are in their loops at the
\* same time.
Interleaved(c1, c2) ==
    /\ c1 /= c2
    /\ sched[c1].pc = "loop"
    /\ sched[c2].pc = "loop"
    /\ sched[c1].account = sched[c2].account

\* C12: two concurrent schedule_batch_posts calls for one account never
\* interleave, and the posts they create together are at least the
\* platform's minimum interval apart and within its daily cap.
C12_SerializedPerAccount ==
    /\ \A c1 \in Callers, c2 \in Callers : ~Interleaved(c1, c2)
    /\ \A i \in PostIds, j \in PostIds :
          (i < j /\ posts[i].social_account_id = posts[j].social_account_id)
          => \/ posts[j].scheduled_time - posts[i].scheduled_time
                  >= min_interval(accounts[posts[i].social_account_id].platform)
                     * MinutesPerHour
             \/ posts[i].scheduled_time - posts[j].scheduled_time
                  >= min_interval(accounts[posts[i].social_account_id].platform)
                     * MinutesPerHour
    /\ \A a \in AccountIds, p \in PostIds :
          Cardinality(PostsOnDay(a, DayOf(posts[p].scheduled_time)))
              <= max_posts_per_day(accounts[a].platform)

\* C13: process_batch never raises when Select produced at least one
\* candidate, whatever per-item failures the later stages meet.
C13_NeverRaisesWithCandidates ==
    batch.pc = "raised" => Len(batch.templates) = 0

\* C14: when Select produces zero candidates process_batch raises: it gets
\* no further than the Select stage, calls no Generator and persists nothing.
C14_ZeroCandidatesRaise ==
    (batch.pc /= "idle" /\ Len(batch.templates) = 0)
    => /\ batch.pc \in {"selected", "raised"}
       /\ generatorCalls = 0
       /\ contentTable = <<>>

\* The prompt indices of the pieces of a list of items, in list order.
Pieces(items) == [k \in 1..Len(items) |-> items[k].piece]

\* The prompt indices of the pieces in a list of items.
PieceSet(items) == {items[k].piece : k \in 1..Len(items)}

\* C15: a piece moderation rejected is gone for good: it is not in the
\* working set handed to the Store stage or any later one, not in the
\* content_pieces table and not in the result of process_batch.
C15_RejectedRemoved ==
    /\ batch.pc \in {"moderated", "uploading", "stored", "returned"}
          => PieceSet(batch.items) \cap batch.rejected = {}
    /\ PieceSet(batch.saved) \cap batch.rejected = {}
    /\ PieceSet(contentTable) \cap batch.rejected = {}

\* A batch returned after moderation rejected one piece and let another
\* through, which was saved.
C15_Witness ==
    /\ batch.pc = "returned"
    /\ batch.rejected /= {}
    /\ batch.saved /= <<>>

\* The content_pieces row a scheduled post points to came out of
\* moderation rejected, or out of a failed upload with its Replicate URL.
UnfitForPosting(post) ==
    /\ post.content_piece_id \in 1..Len(contentTable)
    /\ LET row == contentTable[post.content_piece_id]
       IN  \/ row.piece \in batch.rejected
           \/ row.piece \in batch.upload_failed /\ row.url = ReplicateUrl

\* C16: no ScheduledPost is ever created for a rejected piece, nor for a
\* piece whose upload failed and that kept its pre-storage URL.
C16_OnlySafeStoredScheduled ==
    /\ \A p \in PostIds : ~UnfitForPosting(posts[p])
    /\ \A c \in Callers : \A k \in 1..Len(sched[c].new) :
          ~UnfitForPosting(sched[c].new[k])

\* C17: the Generate stage settles every call: when batch_generate_images
\* returns, every wrapper has returned or raised, none was cancelled, and
\* the result holds one piece for each call that returned and nothing for
\* one that raised.
C17_AllSettled ==
    genPc = "done"
    => /\ \A i \in Tasks : taskState[i] \in {"ok", "err"}
       /\ Len(content_pieces) = Cardinality({i \in Tasks : taskState[i] = "ok"})
       /\ \A i \in Tasks :
             taskState[i] = "ok" <=> \E k \in 1..Len(content_pieces) : content_pieces[k] = i

\* batch_generate_images returned after a call raised and a call of a
\* later prompt returned.
C17_Witness ==
    /\ genPc = "done"
    /\ \E i \in Tasks, j \in Tasks :
          i < j /\ taskState[i] = "err" /\ taskState[j] = "ok"
    /\ content_pieces /= <<>>

\* The prompt indices of a list are in the order of the prompts.
InInputOrder(indices) ==
    \A k \in 1..Len(indices), l \in 1..Len(indices) :
        k < l => indices[k] < indices[l]

\* C18: every collection a batch returns is in the order of the prompts
\* that produced its pieces, whatever order the Generator calls completed
\* in: the pieces batch_generate_images returns, the items _generate_images
\* and every later stage of process_batch hand on, and the saved pieces
\* process_batch returns.
C18_InputOrderKept ==
    /\ genPc = "done" => InInputOrder(content_pieces)
    /\ InInputOrder([k \in 1..Len(batch.items) |-> batch.items[k].piece])
    /\ InInputOrder([k \in 1..Len(batch.saved) |-> batch.saved[k].piece])

\* process_batch returned several saved pieces after a Generator call
\* finished before the call of an earlier prompt.
C18_Witness ==
    /\ batch.pc = "returned"
    /\ overtook
    /\ Len(content_pieces) >= 2
    /\ Len(batch.saved) >= 2

\* This step is one of the Caption stage: its entry or an iteration of its
\* loop.
CaptionStep ==
    batch.pc \in {"generated", "captioning"} /\ batch'.pc \in {"captioning", "captioned"}

\* This step is one of the Store stage: its entry or an iteration of its
\* loop.
StoreStep ==
    batch.pc \in {"moderated", "uploading"} /\ batch'.pc \in {"uploading", "stored"}

\* C19: the Caption and Store stages keep every piece, in place: a piece
\* whose hook generation failed goes on without hook_text, a piece whose
\* upload failed goes on with the URL it had.
C19_CaptionStoreKeepPieces ==
    [][/\ CaptionStep =>
            /\ Pieces(batch'.items) = Pieces(batch.items)
            /\ \A k \in 1..Len(batch'.items) :
                  batch'.items[k].piece \in batch'.hook_failed
                  => batch'.items[k].hook_text = "none"
       /\ StoreStep =>
            /\ Pieces(batch'.items) = Pieces(batch.items)
            /\ \A k \in 1..Len(batch'.items) :
                  batch'.items[k].piece \in batch'.upload_failed
                  => batch'.items[k].url = batch.items[k].url]_vars

\* A batch went through the Caption and Store stages with a failed hook
\* generation and a failed upload, and still holds both of its pieces.
C19_Witness ==
    /\ batch.pc = "stored"
    /\ batch.hook_failed /= {}
    /\ batch.upload_failed /= {}
    /\ Len(batch.items) = MaxItems

\* One iteration of the Persist loop ran in this step.
PersistStep == batch.pc = "stored" /\ batch'.cursor = batch.cursor + 1

----------------------------------------------------------------------------
(* Claims C21..C30                                                         *)

\* C21: every ScheduledPost whose status is failed carries an
\* error_message, whichever of publish_social_post and
\* reschedule_failed_post set the status.
C21_FailedHasMessage ==
    \A p \in PostIds :
        posts[p].status = "failed" => posts[p].error_message \notin {"none", ""}

\* C22: a fatal error of publish_post is not retried: publish_with_retry
\* makes no further request after it and raises at once.
C22_FatalNotRetried ==
    \A w \in Workers :
        workers[w].last_error = "fatal" => workers[w].pc = "raised"

\* C23: the template list _select_templates returns for a batch without
\* custom prompts contains no template more than once.
C23_NoTemplateTwice ==
    (selPc = "selected" /\ selInput.custom = 0)
    => \A i \in 1..Len(final_templates), j \in 1..Len(final_templates) :
          i /= j => final_templates[i] /= final_templates[j]

\* C24: reschedule_failed_post on a post with retry_count >= 3 sets its
\* status to failed and leaves scheduled_time and retry_count as they
\* were; no ScheduledPost ever has a retry_count above 3.
C24_MaxRetriesFinal ==
    [][\A p \in PostIds :
          /\ (RescheduleFailedPost(p) /\ posts[p].retry_count >= MaxRetries)
                => /\ posts'[p].status = "failed"
                   /\ posts'[p].scheduled_time = posts[p].scheduled_time
                   /\ posts'[p].retry_count = posts[p].retry_count
          /\ posts'[p].retry_count <= MaxRetries]_vars

\* reschedule_failed_post has run on a pending post with retry_count 3,
\* which is now failed.
C24_Witness ==
    \E p \in PostIds :
        /\ posts[p].status = "failed"
        /\ posts[p].retry_count = MaxRetries
        /\ posts[p].error_message = "none"

\* C25: the rejected_count recorded for the safety_check stage is the
\* number of pieces that entered the stage and were rejected, and is never
\* negative.
C25_RejectionCountExact ==
    (batch.pc \in {"moderated", "uploading", "stored", "returned"} /\ batch.safety_check)
    => /\ batch.rejected_count = Cardinality(batch.rejected)
       /\ batch.rejected_count >= 0

\* The posts worker w is to process, in order, after starting a sweep.
SweepSelection(w) == <<workers'[w].post>> \o workers'[w].queue

\* Post p is pending and its scheduled_time has come.
PendingAndDue(p) == posts[p].status = "pending" /\ posts[p].scheduled_time <= now

\* C26: a post is published only when its scheduled_time has come, and a
\* sweep takes posts that are pending and due, earliest scheduled_time
\* first, no more of them than its limit.
C26_PublishedWhenDue ==
    [][/\ \A p \in PostIds :
            platformPosts'[p] > platformPosts[p]
            => posts[p].scheduled_time <= now
       /\ \A w \in Workers :
            (workers[w].pc = "idle" /\ workers'[w].pc = "start")
            => LET sel == SweepSelection(w)
               IN  /\ Len(sel) <= MaxLimit
                   /\ sweepLog'.truncated /= sweepLog.truncated
                         => Len(sel) < Cardinality(Due)
                   /\ \A k \in 1..Len(sel) :
                         /\ PendingAndDue(sel[k])
                         /\ \A q \in PostIds :
                               (PendingAndDue(q) /\ Before(q, sel[k]))
                               => \E l \in 1..k : sel[l] = q]_vars

\* A sweep cut by its limit has published the earlier of two due posts;
\* the later one is still pending.
C26_Witness ==
    /\ sweepLog.truncated
    /\ \E p \in PostIds, q \in PostIds :
          /\ posts[p].status = "published"
          /\ posts[q].status = "pending"
          /\ posts[p].scheduled_time < posts[q].scheduled_time
          /\ posts[q].scheduled_time <= now
\* The attempts of the running call that failed and were followed by
\* another attempt.
RetriedAttempts ==
    {i \in 1..Len(modal.outcomes) :
        modal.outcomes[i] # "ok" /\ i < modal.max_retries}

\* C27: generate_image_with_lora makes at most max_retries requests; a
\* successful request is the last one and its result is returned; the
\* sleeps are base * 2^(attempt-1), one after each failed attempt that is
\* followed by another; when every attempt failed the exception raised is
\* the one of the last attempt.
C27_BoundedRetries ==
    LET n == Len(modal.outcomes)
    IN  /\ n <= modal.max_retries
        /\ \A i \in 1..n :
               modal.outcomes[i] = "ok" => i = n /\ modal.pc = "returned"
        /\ modal.pc = "returned" => n >= 1 /\ modal.outcomes[n] = "ok"
        /\ Len(modal.slept) = Cardinality(RetriedAttempts)
        /\ \A i \in 1..Len(modal.slept) :
               modal.slept[i] = modal.base * 2 ^ (i - 1)
        /\ (modal.pc = "raised" /\ n >= 1) =>
               /\ n = modal.max_retries
               /\ \A i \in 1..n : modal.outcomes[i] # "ok"
               /\ modal.raised = modal.outcomes[n]

\* Success on the third attempt after two timeouts, under the default
\* max_retries; and a call whose every attempt failed.
C27_Witness ==
    /\ modal.max_retries = DefaultModalRetries
    /\ modal.pc = "returned"
    /\ modal.outcomes = <<"timeout", "timeout", "ok">>
    /\ modal.slept = <<modal.base, 2 * modal.base>>


\* C28: when the engine raised and the fallback is enabled, the request
\* goes on with the fallback generator's result and returns after adding
\* one ContentPiece whose url starts with "data:image/png;base64,"; when
\* the fallback is disabled the request raises and adds no ContentPiece.
C28_FallbackPersistsDataUrl ==
    /\ (single.engine_raised /\ single.fallback_enabled) =>
          /\ single.used_fallback
          /\ single.result = fallback_generate_image
          /\ single.pc \in {"persist", "returned"}
          /\ single.pc = "persist" => single.stored = 0
          /\ single.pc = "returned" =>
                /\ single.stored \in 1..Len(contentTable)
                /\ StartsWith(contentTable[single.stored].url, DataUrlPrefix)
    /\ (single.engine_raised /\ ~single.fallback_enabled) =>
          /\ single.pc = "raised"
          /\ ~single.used_fallback
          /\ single.stored = 0

\* A request served by the fallback has stored its data URL, and the next
\* request, with the fallback disabled, raised and stored nothing.
C28_Witness ==
    /\ single.requests = 2
    /\ single.engine_raised /\ ~single.fallback_enabled
    /\ single.pc = "raised"
    /\ single.stored = 0
    /\ \E i \in 1..Len(contentTable) :
          /\ contentTable[i].content_type = "image"
          /\ StartsWith(contentTable[i].url, DataUrlPrefix)


\* C29: when the engine's provider call raised and the fallback is
\* configured, generate_image_with_lora does not raise: it returns the
\* fallback provider's result.
C29_EngineReturnsFallback ==
    (single.provider_failed /\ single.fallback_enabled) =>
        ~single.engine_raised


\* C30: every item of the batch carries the template and the prompt of the
\* input index whose Generator call produced its piece, and the access
\* tier of that template, or the entry of custom_tiers at that index.
C30_PairedWithOwnTemplate ==
    \A k \in 1..Len(batch.items) :
        LET item == batch.items[k]
        IN  /\ item.template = item.piece
            /\ item.access_tier
                  = IF item.piece <= Len(batch.custom_tiers)
                    THEN batch.custom_tiers[item.piece]
                    ELSE TierOf(batch.templates[item.piece])


====
